---------------------------- MODULE Spec2Model ----------------------------
(***************************************************************************)
(* Model of the cui-desktop proxy core (src-tauri/src/config.rs and        *)
(* proxy.rs): the cookie jar, its persistence file and the proxy state.    *)
(*                                                                         *)
(* Strings are sequences of one-character strings, so that split, trim,    *)
(* to_lowercase, starts_with and the byte slices of the Rust code are      *)
(* computed character by character as the code computes them.              *)
(***************************************************************************)
EXTENDS Integers, Sequences, FiniteSets, TLC

VARIABLES
    jar,          \* COOKIE_JAR: Vec<CookieEntry>
    file,         \* contents of the cookie persistence file on disk
    cookie_file,  \* COOKIE_FILE: TRUE iff Some(path)
    now,          \* SystemTime::now() in Unix seconds
    proxy,        \* PROXY_STATE: ProxyState
    ret,          \* the last call: its name, arguments and return value
    thread,       \* the call each thread is in, its position and its locals
    lock,         \* the RwLocks of PROXY_STATE and COOKIE_JAR: writer and readers
    hist,         \* the writes to the state and the jar, in the order they took effect
    listeners,    \* the loopback ports on which a serve loop of this process runs
    app_handle,   \* APP_HANDLE: the OnceLock of the host app handle
    browser_cookies  \* the cookies the browser holds for the proxy's origin: <<name, value>>

vars == <<jar, file, cookie_file, now, proxy, ret, thread, lock, hist, listeners, app_handle,
          browser_cookies>>

----------------------------------------------------------------------------
(* Bounds of the model                                                      *)

MaxTime == 1        \* the clock runs from 0 to MaxTime
MaxAttrs == 2       \* attributes per Set-Cookie in the parsing specification
MaxJarAttrs == 1    \* attributes per Set-Cookie in the jar specification
MaxDashLen == 3     \* length of a dashboard string given to update_proxy_state
MaxThreads == 2     \* threads that call into the state and the jar at once

----------------------------------------------------------------------------
(* Strings                                                                  *)


S_path_eq == <<"p", "a", "t", "h", "=">>
S_max_age_eq == <<"m", "a", "x", "-", "a", "g", "e", "=">>
S_httponly == <<"h", "t", "t", "p", "o", "n", "l", "y">>
S_secure == <<"s", "e", "c", "u", "r", "e">>
S_samesite_none == <<"s", "a", "m", "e", "s", "i", "t", "e", "=", "n", "o", "n", "e">>
S_domain_eq == <<"d", "o", "m", "a", "i", "n", "=">>
S_SecurePrefix == <<"_", "_", "S", "e", "c", "u", "r", "e", "-">>
S_HostPrefix == <<"_", "_", "H", "o", "s", "t", "-">>
S_SameSiteLax == <<"S", "a", "m", "e", "S", "i", "t", "e", "=", "L", "a", "x">>
S_locale == <<"_", "_", "l", "o", "c", "a", "l", "e">>
S_theme == <<"_", "_", "t", "h", "e", "m", "e">>
S_slash == <<"/">>
S_semi_sp == <<";", " ">>

\* F on the value of e: e is evaluated once, before F, however often F uses it
Bind(e, F(_)) == CHOOSE r \in {F(x) : x \in {e}} : TRUE

\* char::is_whitespace, on the characters of the model
IsWs(c) == c = " "

RECURSIVE TrimStart(_)
TrimStart(str) ==
    Bind(str, LAMBDA s : IF s # <<>> /\ IsWs(Head(s)) THEN TrimStart(Tail(s)) ELSE s)

RECURSIVE TrimEnd(_)
TrimEnd(str) ==
    Bind(str, LAMBDA s : IF s # <<>> /\ IsWs(s[Len(s)])
                         THEN TrimEnd(SubSeq(s, 1, Len(s) - 1))
                         ELSE s)

\* str::trim
Trim(s) == TrimEnd(TrimStart(s))

RECURSIVE TrimEndMatches(_, _)
\* str::trim_end_matches(c): strips every trailing c
TrimEndMatches(str, c) ==
    Bind(str, LAMBDA s : IF s # <<>> /\ s[Len(s)] = c
                         THEN TrimEndMatches(SubSeq(s, 1, Len(s) - 1), c)
                         ELSE s)

ToLowerChar(c) ==
    CASE c = "A" -> "a" [] c = "B" -> "b" [] c = "C" -> "c" [] c = "D" -> "d"
      [] c = "E" -> "e" [] c = "F" -> "f" [] c = "G" -> "g" [] c = "H" -> "h"
      [] c = "I" -> "i" [] c = "J" -> "j" [] c = "K" -> "k" [] c = "L" -> "l"
      [] c = "M" -> "m" [] c = "N" -> "n" [] c = "O" -> "o" [] c = "P" -> "p"
      [] c = "Q" -> "q" [] c = "R" -> "r" [] c = "S" -> "s" [] c = "T" -> "t"
      [] c = "U" -> "u" [] c = "V" -> "v" [] c = "W" -> "w" [] c = "X" -> "x"
      [] c = "Y" -> "y" [] c = "Z" -> "z" [] OTHER -> c

\* str::to_lowercase
ToLower(str) == Bind(str, LAMBDA s : [i \in 1..Len(s) |-> ToLowerChar(s[i])])

\* str::starts_with
StartsWith(str, p) ==
    Bind(str, LAMBDA s : Len(p) <= Len(s) /\ SubSeq(s, 1, Len(p)) = p)

\* &s[n..]
Skip(str, n) == Bind(str, LAMBDA s : SubSeq(s, n + 1, Len(s)))

RECURSIVE IndexFrom(_, _, _)
IndexFrom(s, c, i) ==
    IF i > Len(s) THEN 0 ELSE IF s[i] = c THEN i ELSE IndexFrom(s, c, i + 1)

\* index of the first occurrence of character c in s, 0 when there is none
FirstIndex(str, c) == Bind(str, LAMBDA s : IndexFrom(s, c, 1))

RECURSIVE Split(_, _)
\* str::split(c): the pieces between the occurrences of c ("" gives one empty piece)
Split(str, c) ==
    Bind(str, LAMBDA s :
        Bind(FirstIndex(s, c), LAMBDA i :
            IF i = 0 THEN <<s>>
            ELSE <<SubSeq(s, 1, i - 1)>> \o Split(Skip(s, i), c)))

\* str::split_once(c)
SplitOnce(str, c) ==
    Bind(str, LAMBDA s :
        Bind(FirstIndex(s, c), LAMBDA i :
            IF i = 0 THEN [found |-> FALSE, left |-> <<>>, right |-> <<>>]
            ELSE [found |-> TRUE, left |-> SubSeq(s, 1, i - 1), right |-> Skip(s, i)]))

RECURSIVE Join(_, _)
\* [String]::join(sep)
Join(strs, sep) ==
    Bind(strs, LAMBDA parts :
        IF parts = <<>> THEN <<>>
        ELSE IF Len(parts) = 1 THEN parts[1]
        ELSE parts[1] \o sep \o Join(Tail(parts), sep))

\* the value of a decimal digit, -1 for any other character
DigitVal(c) ==
    CASE c = "0" -> 0 [] c = "1" -> 1 [] c = "2" -> 2 [] c = "3" -> 3 [] c = "4" -> 4
      [] c = "5" -> 5 [] c = "6" -> 6 [] c = "7" -> 7 [] c = "8" -> 8 [] c = "9" -> 9
      [] OTHER -> 0 - 1

IsDigit(c) == DigitVal(c) >= 0

RECURSIVE DigitsValue(_)
DigitsValue(str) ==
    Bind(str, LAMBDA s :
        IF s = <<>> THEN 0
        ELSE 10 * DigitsValue(SubSeq(s, 1, Len(s) - 1)) + DigitVal(s[Len(s)]))

\* str::parse::<i64>: an optional sign and at least one digit, nothing else.
\* (The inputs of the model have few digits; the i64 range is never left.)
ParseI64(str) ==
    Bind(str, LAMBDA s :
        LET signed == s # <<>> /\ s[1] \in {"-", "+"}
            ds == IF signed THEN Tail(s) ELSE s
        IN  IF ds # <<>> /\ \A i \in 1..Len(ds) : IsDigit(ds[i])
            THEN [ok |-> TRUE,
                  val |-> IF s[1] = "-" THEN 0 - DigitsValue(ds) ELSE DigitsValue(ds)]
            ELSE [ok |-> FALSE, val |-> 0])

\* Option<String>
NoneStr == [some |-> FALSE, val |-> <<>>]
SomeStr(s) == [some |-> TRUE, val |-> s]

----------------------------------------------------------------------------
(* Inputs of store_cookie and get_merged_cookies                            *)

SeqsUpTo(S, n) == UNION {[1..k -> S] : k \in 0..n}

\* a Set-Cookie value: name=value followed by attributes, "; " between them
SetCookieOf(first, attrs) == Join(<<first>> \o attrs, S_semi_sp)

JarFirsts ==
    {<<"a", "=", "1">>,
     <<"a", "=", "2">>}

JarAttrPool ==
    {<<"P", "a", "t", "h", "=", "/", "a", "p", "i">>,
     <<"M", "a", "x", "-", "A", "g", "e", "=", "0">>,
     <<"M", "a", "x", "-", "A", "g", "e", "=", "1">>,
     <<"M", "a", "x", "-", "A", "g", "e", "=", "2">>,
     <<"H", "t", "t", "p", "O", "n", "l", "y">>}

\* Set-Cookie values of the __locale preference
LocaleInputs ==
    {<<"_", "_", "l", "o", "c", "a", "l", "e", "=", "1">>,
     <<"_", "_", "l", "o", "c", "a", "l", "e", "=", "1", ";", " ", "M", "a", "x", "-", "A", "g", "e", "=", "1">>}

JarInputs ==
    {SetCookieOf(f, as) : f \in JarFirsts, as \in SeqsUpTo(JarAttrPool, MaxJarAttrs)}
        \cup LocaleInputs

BrowserHeaders ==
    {<<>>,
     <<" ", "c", " ", "=", " ", "3", " ", ";", "a", "=", "9", ";", "a", "=", "1", ";", "x">>}

RequestPaths ==
    {<<"/">>,
     <<"/", "a", "p", "i", "x">>}

ParseFirsts ==
    {<<"a", "=", "1">>,
     <<" ", "a", " ", "=", " ", "1", " ">>,
     <<"_", "_", "S", "e", "c", "u", "r", "e", "-", "t", "=", "x">>,
     <<"_", "_", "H", "o", "s", "t", "-", "h", "=", "x">>,
     <<"_", "_", "s", "e", "c", "u", "r", "e", "-", "t", "=", "x">>,
     <<"=", "1">>,
     <<"a">>,
     <<>>}

ParseAttrPool ==
    {<<"P", "a", "t", "h", "=", "/", "a", "p", "i">>,
     <<"M", "a", "x", "-", "A", "g", "e", "=", "0">>,
     <<"m", "a", "x", "-", "a", "g", "e", "=", "-", "1">>,
     <<"M", "a", "x", "-", "A", "g", "e", "=", "1">>,
     <<"M", "a", "x", "-", "A", "g", "e", "=", "x">>,
     <<"H", "t", "t", "p", "O", "n", "l", "y">>,
     <<"S", "e", "c", "u", "r", "e">>,
     <<" ", "S", "E", "C", "U", "R", "E">>,
     <<"D", "o", "m", "a", "i", "n", "=", "e">>,
     <<"S", "a", "m", "e", "S", "i", "t", "e", "=", "N", "o", "n", "e">>,
     <<"S", "a", "m", "e", "S", "i", "t", "e", "=", "L", "a", "x">>,
     <<>>}

ParseInputs ==
    {SetCookieOf(f, as) : f \in ParseFirsts, as \in SeqsUpTo(ParseAttrPool, MaxAttrs)}

----------------------------------------------------------------------------
(* Cookie jar: store_cookie                                                 *)

\* CookieEntry
Entry(name, value, path, expires_at, http_only) ==
    [name |-> name, value |-> value, path |-> path,
     expires_at |-> expires_at, http_only |-> http_only]

\* a retain that keeps an entry through the second it expires at
UnexpiredAtDeadline(c, t) == c.expires_at = 0 \/ c.expires_at >= t

\* jar.retain(|c| c.expires_at == 0 || c.expires_at > now)
Unexpired(c, t) == c.expires_at = 0 \/ c.expires_at > t

PurgeExpired(j, t) == SelectSeq(j, LAMBDA c : Unexpired(c, t))

\* remove_cookie: jar.retain(|c| c.name != name)
RemoveCookie(j, name) == SelectSeq(j, LAMBDA c : c.name # name)

\* an upsert that always pushes
UpsertPush(j, entry) == Append(j, entry)

\* an upsert that removes the entry of that name and pushes the new one
UpsertToEnd(j, entry) == Append(SelectSeq(j, LAMBDA c : c.name # entry.name), entry)

\* the upsert of store_cookie: replace the entry of that name, or push
Upsert(j, entry) ==
    IF \E i \in 1..Len(j) : j[i].name = entry.name
    THEN LET i == CHOOSE i \in 1..Len(j) :
                      j[i].name = entry.name /\ \A k \in 1..(i - 1) : j[k].name # entry.name
         IN  [j EXCEPT ![i] = entry]
    ELSE Append(j, entry)

\* the locals of store_cookie before the attribute scan
ScanInit ==
    [path |-> S_slash, expires_at |-> 0, http_only |-> FALSE,
     has_secure_flag |-> FALSE, has_samesite_none |-> FALSE, deleted |-> FALSE]

\* a Max-Age branch that deletes on negative values only
MaxAgeAttrNegative(acc, trimmed, t) ==
    LET r == ParseI64(Trim(Skip(trimmed, 8)))
    IN  IF r.ok
        THEN IF r.val > 0 THEN [acc EXCEPT !.expires_at = t + r.val]
             ELSE IF r.val < 0 THEN [acc EXCEPT !.deleted = TRUE]
             ELSE acc
        ELSE acc

\* a Max-Age branch that takes a value it cannot parse for a deletion
MaxAgeAttrStrict(acc, trimmed, t) ==
    LET r == ParseI64(Trim(Skip(trimmed, 8)))
    IN  IF r.ok /\ r.val > 0
        THEN [acc EXCEPT !.expires_at = t + r.val]
        ELSE [acc EXCEPT !.deleted = TRUE]

\* the Max-Age branch of the scan
MaxAgeAttr(acc, trimmed, t) ==
    LET r == ParseI64(Trim(Skip(trimmed, 8)))
    IN  IF r.ok
        THEN IF r.val > 0
             THEN [acc EXCEPT !.expires_at = t + r.val]
             ELSE [acc EXCEPT !.deleted = TRUE]
        ELSE acc

\* one round of the attribute loop of store_cookie
ScanPart(acc, part, t) ==
    Bind(Trim(part), LAMBDA trimmed :
        Bind(ToLower(trimmed), LAMBDA lower :
            IF StartsWith(lower, S_path_eq)
            THEN [acc EXCEPT !.path = Trim(Skip(trimmed, 5))]
            ELSE IF StartsWith(lower, S_max_age_eq) THEN MaxAgeAttr(acc, trimmed, t)
            ELSE IF lower = S_httponly THEN [acc EXCEPT !.http_only = TRUE]
            ELSE IF lower = S_secure THEN [acc EXCEPT !.has_secure_flag = TRUE]
            ELSE IF lower = S_samesite_none THEN [acc EXCEPT !.has_samesite_none = TRUE]
            ELSE acc))

RECURSIVE ScanAttrs(_, _, _, _)
\* the attribute loop over parts[i..]; a Max-Age <= 0 returns from store_cookie
ScanAttrs(locals, parts, i, t) ==
    Bind(locals, LAMBDA acc :
        IF i > Len(parts) \/ acc.deleted THEN acc
        ELSE ScanAttrs(ScanPart(acc, parts[i], t), parts, i + 1, t))

\* an is_secure that does not look for the __Host- prefix
IsSecureCookieNoHost(name, has_secure_flag) ==
    \/ has_secure_flag
    \/ StartsWith(name, S_SecurePrefix)

\* is_secure of store_cookie
IsSecureCookie(name, has_secure_flag) ==
    \/ has_secure_flag
    \/ StartsWith(name, S_SecurePrefix)
    \/ StartsWith(name, S_HostPrefix)

\* a sanitizer that lets Domain through
DroppedAttrKeepDomain(lower) ==
    \/ lower = S_secure
    \/ lower = S_samesite_none

\* the attributes the sanitized Set-Cookie drops
DroppedAttr(lower) ==
    \/ lower = S_secure
    \/ StartsWith(lower, S_domain_eq)
    \/ lower = S_samesite_none

RECURSIVE KeptAttrs(_, _)
\* parts_out after the loop over parts[i..]
KeptAttrs(parts, i) ==
    IF i > Len(parts) THEN <<>>
    ELSE IF DroppedAttr(ToLower(Trim(parts[i]))) THEN KeptAttrs(parts, i + 1)
    ELSE <<Trim(parts[i])>> \o KeptAttrs(parts, i + 1)

\* the sanitized Set-Cookie for the browser
BrowserCookie(name, value, parts, has_samesite_none) ==
    Join(<<name \o <<"=">> \o value>>
           \o KeptAttrs(parts, 2)
           \o (IF has_samesite_none THEN <<S_SameSiteLax>> ELSE <<>>),
         S_semi_sp)

\* a first-token test that accepts an empty name
NoCookieNameEqOnly(nv, name) == ~nv.found

\* the two early returns of store_cookie on its first token: no '=' in it, or
\* nothing but whitespace before the '='
NoCookieName(nv, name) == ~nv.found \/ name = <<>>

\* store_cookie up to its first access to the jar: the outcome of the parse
\* ("ignored": no name; "removed": a Max-Age <= 0; "stored"), the entry it
\* builds and the StoreCookieResult it will return
ParseSetCookie(set_cookie, t) ==
    Bind(Split(set_cookie, ";"), LAMBDA parts :
    Bind(SplitOnce(Trim(parts[1]), "="), LAMBDA nv :
    Bind(ScanAttrs(ScanInit, parts, 2, t), LAMBDA acc :
        LET name == Trim(nv.left)
            value == Trim(nv.right)
            is_secure == IsSecureCookie(name, acc.has_secure_flag)
        IN  IF NoCookieName(nv, name)
            THEN [kind |-> "ignored", entry |-> Entry(<<>>, <<>>, <<>>, 0, FALSE),
                  is_secure |-> FALSE, browser_cookie |-> NoneStr]
            ELSE IF acc.deleted
            THEN [kind |-> "removed", entry |-> Entry(name, value, <<>>, 0, FALSE),
                  is_secure |-> FALSE, browser_cookie |-> NoneStr]
            ELSE [kind |-> "stored",
                  entry |-> Entry(name, value, acc.path, acc.expires_at, acc.http_only),
                  is_secure |-> is_secure,
                  browser_cookie |->
                      IF is_secure THEN NoneStr
                      ELSE SomeStr(BrowserCookie(name, value, parts,
                                                 acc.has_samesite_none))])))

\* ParseSetCookie on the inputs of the jar specification, computed once
ParsedInputs ==
    [sc \in JarInputs, t \in 0..MaxTime |-> ParseSetCookie(sc, t)]

Parsed(set_cookie, t) ==
    IF <<set_cookie, t>> \in DOMAIN ParsedInputs
    THEN ParsedInputs[set_cookie, t]
    ELSE ParseSetCookie(set_cookie, t)

\* store_cookie without its save: the outcome of the parse, the jar it leaves
\* and the StoreCookieResult
StoreCookie(set_cookie, j, t) ==
    LET p == Parsed(set_cookie, t)
    IN  [kind |-> p.kind,
         jar |-> IF p.kind = "ignored" THEN j
                 ELSE IF p.kind = "removed" THEN RemoveCookie(j, p.entry.name)
                 ELSE Upsert(j, p.entry),
         is_secure |-> p.is_secure,
         browser_cookie |-> p.browser_cookie]

----------------------------------------------------------------------------
(* Cookie jar: persistence                                                  *)

\* the states of the file at the persistence path
FileAbsent == [kind |-> "absent", data |-> <<>>]
FileCorrupt == [kind |-> "corrupt", data |-> <<>>]

\* serde_json::to_string_pretty(&*jar): a JSON array with one object per entry,
\* an object written here as the tuple of its five field values
Serialize(j) ==
    [kind |-> "json",
     data |-> [i \in 1..Len(j) |->
                  <<j[i].name, j[i].value, j[i].path, j[i].expires_at, j[i].http_only>>]]

\* serde_json::from_str::<Vec<CookieEntry>>(&data)
Deserialize(data) ==
    [i \in 1..Len(data) |->
        Entry(data[i][1], data[i][2], data[i][3], data[i][4], data[i][5])]

\* save_cookies: the file it leaves (std::fs::write is taken to succeed)
SaveCookies(path_set, j, f) == IF path_set THEN Serialize(j) ELSE f

\* a load that adds the entries of the file to the jar in memory
LoadCookiesMerge(path_set, j, f, t) ==
    PurgeExpired(IF path_set /\ f.kind = "json" THEN j \o Deserialize(f.data) ELSE j, t)

\* load_cookies: the jar it leaves
LoadCookies(path_set, j, f, t) ==
    PurgeExpired(IF path_set /\ f.kind = "json" THEN Deserialize(f.data) ELSE j, t)

----------------------------------------------------------------------------
(* Cookie jar: reads                                                        *)

\* an insert that keeps the value already in the map
MapInsertKeep(m, name, value) ==
    Bind(name, LAMBDA n :
        IF \E i \in 1..Len(m) : m[i][1] = n THEN m ELSE Append(m, <<n, value>>))

\* HashMap::insert on a map kept as a sequence of <<name, value>> pairs
MapInsert(m, name, value) ==
    Bind(<<name, value>>, LAMBDA nv :
        IF \E i \in 1..Len(m) : m[i][1] = nv[1]
        THEN [i \in 1..Len(m) |-> IF m[i][1] = nv[1] THEN nv ELSE m[i]]
        ELSE Append(m, nv))

RECURSIVE BrowserMap(_, _, _)
\* the loop of get_merged_cookies over browser_cookie_header.split(';')
BrowserMap(cookie_map, pairs, i) ==
    Bind(cookie_map, LAMBDA m :
        IF i > Len(pairs) THEN m
        ELSE Bind(SplitOnce(Trim(pairs[i]), "="), LAMBDA nv :
                 BrowserMap(IF nv.found
                            THEN MapInsert(m, Trim(nv.left), Trim(nv.right))
                            ELSE m,
                            pairs, i + 1)))

\* a path test by equality
PathMatchesExact(request_path, c) == request_path = c.path

\* the path test of get_merged_cookies and get_cookies_header
PathMatches(request_path, c) == StartsWith(request_path, c.path)

RECURSIVE JarMap(_, _, _, _)
\* the loop of get_merged_cookies over the jar
JarMap(cookie_map, j, i, request_path) ==
    Bind(cookie_map, LAMBDA m :
        IF i > Len(j) THEN m
        ELSE JarMap(IF PathMatches(request_path, j[i])
                    THEN MapInsert(m, j[i].name, j[i].value)
                    ELSE m,
                    j, i + 1, request_path))

\* cookie_map of get_merged_cookies, on the purged jar
MergedMap(browser_cookie_header, request_path, j) ==
    JarMap(IF browser_cookie_header # <<>>
           THEN Bind(Split(browser_cookie_header, ";"),
                     LAMBDA pairs : BrowserMap(<<>>, pairs, 1))
           ELSE <<>>,
           j, 1, request_path)

\* format!("{}={}", n, v) over a sequence of pairs, joined by "; "
FormatPairs(pairs) ==
    Bind(pairs, LAMBDA m :
        Join([i \in 1..Len(m) |-> m[i][1] \o <<"=">> \o m[i][2]], S_semi_sp))

\* the iteration orders HashMap::into_iter may take over n entries
Orders(n) == {f \in [1..n -> 1..n] : \A a, b \in 1..n : f[a] = f[b] => a = b}

\* get_cookies_header on the purged jar
CookiesHeader(request_path, j) ==
    LET kept == SelectSeq(j, LAMBDA c : PathMatches(request_path, c))
    IN  FormatPairs([i \in 1..Len(kept) |-> <<kept[i].name, kept[i].value>>])

S_pref_attrs == <<";", " ", "P", "a", "t", "h", "=", "/", ";", " ", "M", "a", "x", "-", "A", "g", "e", "=", "3", "1", "5", "3", "6", "0", "0", "0", ";", " ", "S", "a", "m", "e", "S", "i", "t", "e", "=", "L", "a", "x">>

IsPreference(c) == c.name = S_locale \/ c.name = S_theme

RECURSIVE LastValue(_, _, _)
\* locale_value / theme_value of serve_cui_static: the value of the last entry
\* of that name, "" when there is none
LastValue(j, i, name) ==
    IF i = 0 THEN <<>>
    ELSE IF j[i].name = name THEN j[i].value
    ELSE LastValue(j, i - 1, name)

\* the jar read of serve_cui_static for an HTML response
StaticJarRead(j) ==
    LET prefs == SelectSeq(j, IsPreference)
    IN  [set_cookie |-> [i \in 1..Len(prefs) |->
                            prefs[i].name \o <<"=">> \o prefs[i].value \o S_pref_attrs],
         locale_value |-> LastValue(j, Len(j), S_locale),
         theme_value |-> LastValue(j, Len(j), S_theme)]

----------------------------------------------------------------------------
(* Proxy state                                                              *)

S_openapi == <<"o", "p", "e", "n", "a", "p", "i">>
S_legacy == <<"l", "e", "g", "a", "c", "y">>

DefaultPort == 15099

\* ProxyState::default()
ProxyDefault ==
    [running |-> FALSE, port |-> DefaultPort, server_url |-> <<>>, token |-> <<>>,
     auth_mode |-> S_openapi, dashboard |-> <<>>]

\* the dashboard normalization of update_proxy_state
NormalizeDashboard(dashboard) ==
    LET d == TrimEndMatches(Trim(dashboard), "/")
    IN  IF d = <<>> THEN <<>>
        ELSE IF StartsWith(d, S_slash) THEN d
        ELSE S_slash \o d

\* an update that also stops the proxy
UpdateProxyStateStops(p, server_url, token, auth_mode, dashboard) ==
    [p EXCEPT !.running = FALSE,
              !.server_url = server_url,
              !.token = token,
              !.auth_mode = auth_mode,
              !.dashboard = NormalizeDashboard(dashboard)]

\* update_proxy_state
UpdateProxyState(p, server_url, token, auth_mode, dashboard) ==
    [p EXCEPT !.server_url = server_url,
              !.token = token,
              !.auth_mode = auth_mode,
              !.dashboard = NormalizeDashboard(dashboard)]

\* set_proxy_running
SetProxyRunning(p, running) == [p EXCEPT !.running = running]

\* the state write of start_proxy_server once the listener is bound
StartProxyServer(p, port) == [p EXCEPT !.running = TRUE, !.port = port]

----------------------------------------------------------------------------
(* Inputs of the calls                                                      *)

\* jars the parsing specification starts from
ParseJars ==
    {<<>>,
     <<Entry(<<"a">>, <<"0">>, S_slash, 0, FALSE),
       Entry(<<"_", "_", "S", "e", "c", "u", "r", "e", "-", "t">>, <<"0">>, S_slash, 0, TRUE)>>}

\* what the persistence file may hold when the process starts: nothing, something
\* unreadable, or the jar an earlier run saved
InitFiles ==
    {FileAbsent, FileCorrupt,
     Serialize(<<Entry(<<"a">>, <<"2">>, <<"/", "a", "p", "i">>, 1, TRUE),
                 Entry(S_locale, <<"1">>, S_slash, 0, FALSE)>>)}

DashChars == {"a", "/", " "}
DashStrings == SeqsUpTo(DashChars, MaxDashLen)
ServerUrls == {<<"h">>, <<"h", "/">>}
Tokens == {<<>>, <<"t">>}
AuthModes == {S_openapi, S_legacy}
Ports == {DefaultPort, 8080, 0}

\* the port the system gives to a listener that asks for port 0
EphemeralPorts == {49152}

\* TcpListener::bind(format!("127.0.0.1:{}", port)): an error (the port is held
\* by this process or by another one, or there is no port to give), or a
\* listener on the port, on a port of the system's choice when port is 0
BindOutcomes(port, held) ==
    {[ok |-> FALSE, addr |-> port]}
        \cup {[ok |-> TRUE, addr |-> a] :
                 a \in (IF port = 0 THEN EphemeralPorts ELSE {port}) \ held}

----------------------------------------------------------------------------
(* The state machine: one action per call                                   *)

Call(op, args, val, wrote) == [op |-> op, args |-> args, val |-> val, wrote |-> wrote]

Threads == 1..MaxThreads

\* a thread that is in no call
Idle ==
    [op |-> "idle", arg |-> <<>>, pc |-> "idle", idx |-> 0, acc |-> <<>>,
     snap |-> ProxyDefault, val |-> <<>>, from |-> 0]

\* an RwLock that nobody holds
Unlocked == [writer |-> 0, readers |-> {}]

\* OnceLock::new(), and the lock once set_app_handle has stored a handle
NoHandle == [some |-> FALSE, val |-> ""]
SomeHandle(handle) == [some |-> TRUE, val |-> handle]

\* a set that replaces the handle already stored
SetAppHandleOverwrite(cell, handle) == SomeHandle(handle)

\* let _ = APP_HANDLE.set(handle): stores the handle in an empty lock, and
\* is an Err that is dropped when the lock holds one
SetAppHandle(cell, handle) == IF cell.some THEN cell ELSE SomeHandle(handle)

\* no thread in a call, both locks free, nothing written yet
Quiet ==
    /\ thread = [t \in Threads |-> Idle]
    /\ lock = [state |-> Unlocked, jar |-> Unlocked]
    /\ hist = <<>>

Init ==
    /\ jar = <<>>
    /\ file \in InitFiles
    /\ cookie_file = FALSE
    /\ now = 0
    /\ proxy = ProxyDefault
    /\ ret = Call("init", <<>>, <<>>, FALSE)
    /\ Quiet
    /\ listeners = {}
    /\ app_handle = NoHandle
    /\ browser_cookies = <<>>

\* time passes
Tick ==
    /\ now < MaxTime
    /\ now' = now + 1
    /\ ret' = Call("tick", <<>>, <<>>, FALSE)
    /\ UNCHANGED <<jar, file, cookie_file, proxy, thread, lock, hist, listeners, app_handle, browser_cookies>>

\* set_cookie_file(path)
SetCookieFile ==
    /\ cookie_file' = TRUE
    /\ ret' = Call("set_cookie_file", <<>>, <<>>, FALSE)
    /\ UNCHANGED <<jar, file, now, proxy, thread, lock, hist, listeners, app_handle, browser_cookies>>

\* load_cookies()
LoadCookiesCall ==
    /\ jar' = LoadCookies(cookie_file, jar, file, now)
    /\ ret' = Call("load_cookies", <<>>, <<>>, FALSE)
    /\ UNCHANGED <<file, cookie_file, now, proxy, thread, lock, hist, listeners, app_handle, browser_cookies>>

\* store_cookie(set_cookie), its remove_cookie and save_cookies included
StoreCookieCall(set_cookie) ==
    \E r \in {StoreCookie(set_cookie, jar, now)} :
    LET saves == r.kind # "ignored"
    IN  /\ jar' = r.jar
        /\ file' = IF saves THEN SaveCookies(cookie_file, r.jar, file) ELSE file
        /\ ret' = Call("store_cookie", <<set_cookie>>,
                       [is_secure |-> r.is_secure, browser_cookie |-> r.browser_cookie],
                       saves /\ cookie_file)
        /\ UNCHANGED <<cookie_file, now, proxy, thread, lock, hist, listeners, app_handle, browser_cookies>>

\* clear_cookies()
ClearCookiesCall ==
    /\ jar' = <<>>
    /\ file' = SaveCookies(cookie_file, <<>>, file)
    /\ ret' = Call("clear_cookies", <<>>, <<>>, cookie_file)
    /\ UNCHANGED <<cookie_file, now, proxy, thread, lock, hist, listeners, app_handle, browser_cookies>>

\* get_merged_cookies(browser_cookie_header, request_path)
GetMergedCookiesCall(browser_cookie_header, request_path) ==
    \E purged \in {PurgeExpired(jar, now)} :
    \E m \in {MergedMap(browser_cookie_header, request_path, purged)} :
        /\ jar' = purged
        /\ \E o \in Orders(Len(m)) :
              ret' = Call("get_merged_cookies", <<browser_cookie_header, request_path>>,
                          FormatPairs([i \in 1..Len(m) |-> m[o[i]]]), FALSE)
        /\ UNCHANGED <<file, cookie_file, now, proxy, thread, lock, hist, listeners, app_handle, browser_cookies>>

\* get_cookies_header(request_path)
GetCookiesHeaderCall(request_path) ==
    LET purged == PurgeExpired(jar, now)
    IN  /\ jar' = purged
        /\ ret' = Call("get_cookies_header", <<request_path>>,
                       CookiesHeader(request_path, purged), FALSE)
        /\ UNCHANGED <<file, cookie_file, now, proxy, thread, lock, hist, listeners, app_handle, browser_cookies>>

\* cookie_count()
CookieCountCall ==
    /\ ret' = Call("cookie_count", <<>>, Len(jar), FALSE)
    /\ UNCHANGED <<jar, file, cookie_file, now, proxy, thread, lock, hist, listeners, app_handle, browser_cookies>>

\* serve_cui_static answering with an HTML file: its read of the jar
ServeStaticHtml ==
    /\ ret' = Call("serve_cui_static", <<>>, StaticJarRead(jar), FALSE)
    /\ UNCHANGED <<jar, file, cookie_file, now, proxy, thread, lock, hist, listeners, app_handle, browser_cookies>>

Next ==
    \/ Tick
    \/ SetCookieFile
    \/ LoadCookiesCall
    \/ \E sc \in JarInputs : StoreCookieCall(sc)
    \/ ClearCookiesCall
    \/ \E b \in BrowserHeaders, p \in RequestPaths : GetMergedCookiesCall(b, p)
    \/ \E p \in RequestPaths : GetCookiesHeaderCall(p)
    \/ CookieCountCall
    \/ ServeStaticHtml

Spec == Init /\ [][Next]_vars

----------------------------------------------------------------------------
(* store_cookie as a function of its input: every input of ParseInputs is   *)
(* given once to store_cookie, on a jar of ParseJars                        *)

InitParse ==
    /\ jar \in ParseJars
    /\ file = FileAbsent
    /\ cookie_file \in BOOLEAN
    /\ now = 0
    /\ proxy = ProxyDefault
    /\ ret \in {Call("input", <<sc>>, <<>>, FALSE) : sc \in ParseInputs}
    /\ Quiet
    /\ listeners = {}
    /\ app_handle = NoHandle
    /\ browser_cookies = <<>>

StoreInput ==
    /\ ret.op = "input"
    /\ StoreCookieCall(ret.args[1])

NextParse == StoreInput

SpecParse == InitParse /\ [][NextParse]_vars

----------------------------------------------------------------------------
(* The proxy state under its mutators                                       *)

\* update_proxy_state(server_url, token, auth_mode, dashboard)
UpdateProxyStateCall(server_url, token, auth_mode, dashboard) ==
    /\ proxy' = UpdateProxyState(proxy, server_url, token, auth_mode, dashboard)
    /\ ret' = Call("update_proxy_state", <<server_url, token, auth_mode, dashboard>>,
                   <<>>, FALSE)
    /\ UNCHANGED <<jar, file, cookie_file, now, thread, lock, hist, listeners, app_handle, browser_cookies>>

\* set_proxy_running(running)
SetProxyRunningCall(running) ==
    /\ proxy' = SetProxyRunning(proxy, running)
    /\ ret' = Call("set_proxy_running", <<running>>, <<>>, FALSE)
    /\ UNCHANGED <<jar, file, cookie_file, now, thread, lock, hist, listeners, app_handle, browser_cookies>>

\* get_proxy_state()
GetProxyStateCall ==
    /\ ret' = Call("get_proxy_state", <<>>, proxy, FALSE)
    /\ UNCHANGED <<jar, file, cookie_file, now, proxy, thread, lock, hist, listeners, app_handle, browser_cookies>>

\* start_proxy_server(cui_dist_path, port): the listener binds, or the call
\* returns Err and leaves the state alone
StartProxyServerCall(port, bound) ==
    /\ proxy' = IF bound.ok THEN StartProxyServer(proxy, port) ELSE proxy
    /\ listeners' = IF bound.ok THEN listeners \cup {bound.addr} ELSE listeners
    /\ ret' = Call("start_proxy_server", <<port>>, bound.ok, FALSE)
    /\ UNCHANGED <<jar, file, cookie_file, now, thread, lock, hist, app_handle, browser_cookies>>

\* the task spawned by start_proxy_server: axum::serve returns Err, the
\* listener is dropped and set_proxy_running(false) is called
ServeError(addr) ==
    /\ addr \in listeners
    /\ listeners' = listeners \ {addr}
    /\ proxy' = SetProxyRunning(proxy, FALSE)
    /\ ret' = Call("serve", <<addr>>, "error", FALSE)
    /\ UNCHANGED <<jar, file, cookie_file, now, thread, lock, hist, app_handle, browser_cookies>>

InitProxy ==
    /\ jar = <<>>
    /\ file = FileAbsent
    /\ cookie_file = FALSE
    /\ now = 0
    /\ proxy = ProxyDefault
    /\ ret = Call("init", <<>>, <<>>, FALSE)
    /\ Quiet
    /\ listeners = {}
    /\ app_handle = NoHandle
    /\ browser_cookies = <<>>

NextProxy ==
    \/ \E s \in ServerUrls, t \in Tokens, a \in AuthModes, d \in DashStrings :
          UpdateProxyStateCall(s, t, a, d)
    \/ \E r \in BOOLEAN : SetProxyRunningCall(r)
    \/ \E port \in Ports : \E bound \in BindOutcomes(port, listeners) :
          StartProxyServerCall(port, bound)
    \/ GetProxyStateCall

SpecProxy == InitProxy /\ [][NextProxy]_vars

----------------------------------------------------------------------------
(* The listener: the proxy state under the calls that the program makes,    *)
(* start_proxy_server, its serve loops and update_proxy_state               *)

NextListen ==
    \/ \E port \in Ports : \E bound \in BindOutcomes(port, listeners) :
          StartProxyServerCall(port, bound)
    \/ \E addr \in listeners : ServeError(addr)
    \/ \E s \in ServerUrls, t \in Tokens : UpdateProxyStateCall(s, t, S_openapi, <<>>)
    \/ GetProxyStateCall

SpecListen == InitProxy /\ [][NextListen]_vars

----------------------------------------------------------------------------
(* Request pipeline                                                         *)

S_desktop_prefix == <<"/", "_", "_", "y", "a", "o", "_", "d", "e", "s", "k", "t", "o", "p", "/">>
S_fullscreen == <<"/", "_", "_", "y", "a", "o", "_", "d", "e", "s", "k", "t", "o", "p", "/", "w", "i", "n", "d", "o", "w", "/", "f", "u", "l", "l", "s", "c", "r", "e", "e", "n">>
S_bridge == <<"/", "_", "_", "y", "a", "o", "_", "b", "r", "i", "d", "g", "e">>
S_admin_prefix == <<"/", "_", "_", "y", "a", "o", "_", "a", "d", "m", "i", "n", "_", "r", "o", "o", "t", "/">>
S_admin == <<"/", "_", "_", "y", "a", "o", "_", "a", "d", "m", "i", "n", "_", "r", "o", "o", "t">>
S_bearer == <<"B", "e", "a", "r", "e", "r", " ">>
S_local_host == <<"h", "t", "t", "p", ":", "/", "/", "1", "2", "7", ".", "0", ".", "0", ".", "1", ":">>
S_event_stream == <<"t", "e", "x", "t", "/", "e", "v", "e", "n", "t", "-", "s", "t", "r", "e", "a", "m">>
S_no_cache == <<"n", "o", "-", "c", "a", "c", "h", "e">>
S_no == <<"n", "o">>

\* a header value: visible text, or bytes that HeaderValue::to_str rejects
Text(s) == [text |-> TRUE, val |-> s]
Opaque == [text |-> FALSE, val |-> <<"~">>]

\* HeaderValue::to_str
ToStr(v) == IF v.text THEN SomeStr(v.val) ELSE NoneStr

DigitChar(d) == <<"0", "1", "2", "3", "4", "5", "6", "7", "8", "9">>[d + 1]

RECURSIVE Decimal(_)
\* format!("{}", n) of an unsigned integer
Decimal(n) == IF n < 10 THEN <<DigitChar(n)>> ELSE Decimal(n \div 10) \o <<DigitChar(n % 10)>>

RECURSIVE ReplaceN(_, _, _, _)
\* str::replacen(from, to, count), from not empty: the first count occurrences,
\* found left to right without overlap
ReplaceN(str, from, to, count) ==
    Bind(str, LAMBDA s :
        IF count = 0 \/ Len(s) < Len(from) THEN s
        ELSE IF StartsWith(s, from)
        THEN to \o ReplaceN(Skip(s, Len(from)), from, to, count - 1)
        ELSE <<s[1]>> \o ReplaceN(Tail(s), from, to, count))

\* str::replace(from, to): every occurrence
Replace(str, from, to) == Bind(str, LAMBDA s : ReplaceN(s, from, to, Len(s)))

\* str::contains
Contains(str, sub) ==
    Bind(str, LAMBDA s :
        \E i \in 0..(Len(s) - Len(sub)) : SubSeq(s, i + 1, i + Len(sub)) = sub)

\* HeaderMap::get(name): the first value of that name.  Header names are
\* HeaderName values, which are lower case already; they are the strings of
\* the model, and to_lowercase leaves them as they are.
HeaderGet(headers, name) ==
    LET at == {i \in 1..Len(headers) : headers[i][1] = name}
    IN  IF at = {} THEN [some |-> FALSE, val |-> Opaque]
        ELSE [some |-> TRUE, val |-> headers[CHOOSE i \in at : \A k \in at : i <= k][2]]

\* the values of the headers of that name, in header order
HeaderValues(headers, name) ==
    LET kept == SelectSeq(headers, LAMBDA h : h[1] = name)
    IN  [i \in 1..Len(kept) |-> kept[i][2]]

\* a dispatch that takes the bridge page by prefix
RouteBridgePrefix(path) ==
    IF StartsWith(path, S_desktop_prefix) THEN "desktop"
    ELSE IF StartsWith(path, S_bridge) THEN "bridge"
    ELSE IF StartsWith(path, S_admin_prefix) THEN "static"
    ELSE IF path = S_admin THEN "admin_redirect"
    ELSE IF path = S_slash THEN "root_redirect"
    ELSE "upstream"

\* the dispatch of handle_request
Route(path) ==
    IF StartsWith(path, S_desktop_prefix) THEN "desktop"
    ELSE IF path = S_bridge THEN "bridge"
    ELSE IF StartsWith(path, S_admin_prefix) THEN "static"
    ELSE IF path = S_admin THEN "admin_redirect"
    ELSE IF path = S_slash THEN "root_redirect"
    ELSE "upstream"

\* a response: status, headers in the order they were added, and what the body is
Response(status, headers, body) == [status |-> status, headers |-> headers, body |-> body]

\* no request was built for the upstream
NoUpstream == [some |-> FALSE, method |-> "", url |-> <<>>, headers |-> <<>>, body |-> FALSE]

\* what one call of handle_request did: the response, the request given to
\* send() if there was one, whether the body of the request was read, and the
\* jar and the file it leaves
Outcome(route, response, upstream, body_read, j, f, wrote) ==
    [route |-> route, response |-> response, upstream |-> upstream,
     body_read |-> body_read, jar |-> j, file |-> f, wrote |-> wrote]

\* handle_desktop_api and handle_window_fullscreen; app is what the desktop
\* shell offers: no app handle ("none"), no window, or a window
DesktopApi(req, app) ==
    IF req.path # S_fullscreen THEN [status |-> 404, body_read |-> FALSE]
    ELSE IF app = "none" THEN [status |-> 503, body_read |-> FALSE]
    ELSE IF app = "no_window" THEN [status |-> 404, body_read |-> FALSE]
    ELSE [status |-> 200, body_read |-> (req.method = "POST")]

\* serve_cui_static; disk is what the build directory holds for the path
CuiStatic(disk, j) ==
    CASE disk = "not_built" -> Response(404, <<>>, "text")
      [] disk = "forbidden" -> Response(403, <<>>, "text")
      [] disk = "read_error" -> Response(500, <<>>, "text")
      [] disk = "asset" -> Response(200, <<>>, "bytes")
      [] OTHER ->
            LET read == StaticJarRead(j)
            IN  Response(200, [i \in 1..Len(read.set_cookie) |->
                                  <<"set-cookie", Text(read.set_cookie[i])>>],
                         "text")

\* uri.path_and_query()
PathAndQuery(req) ==
    IF req.query.some THEN req.path \o <<"?">> \o req.query.val ELSE req.path

\* format!("http://127.0.0.1:{}", state.port)
LocalBase(state) == S_local_host \o Decimal(state.port)

\* state.server_url.trim_end_matches('/')
RemoteBase(state) == TrimEndMatches(state.server_url, "/")

\* the Cookie header of the browser as text, "" when absent or not text
BrowserCookieHeader(req) ==
    LET got == HeaderGet(req.headers, "cookie")
    IN  IF got.some /\ got.val.text THEN got.val.val ELSE <<>>

\* one round of the header copy loop: what the header adds to the builder
CopiedHeader(name, value, remote_base, local_base) ==
    IF name \in {"host", "connection", "transfer-encoding", "cookie"} THEN <<>>
    ELSE IF name = "origin" THEN << <<"origin", remote_base>> >>
    ELSE IF name = "referer" /\ value.text
    THEN << <<"referer", Replace(value.val, local_base, remote_base)>> >>
    ELSE IF value.text THEN << <<name, value.val>> >>
    ELSE <<>>

RECURSIVE CopyHeaders(_, _, _, _, _)
\* the header copy loop of proxy_request
CopyHeaders(headers, i, out, remote_base, local_base) ==
    Bind(out, LAMBDA o :
        IF i > Len(headers) THEN o
        ELSE CopyHeaders(headers, i + 1,
                         o \o CopiedHeader(headers[i][1], headers[i][2],
                                           remote_base, local_base),
                         remote_base, local_base))

\* RequestBuilder::header(name, value): appends, headers of the same name stay
AddHeader(headers, name, value) == headers \o << <<name, value>> >>

\* the request given to send(): method, target URL, copied headers, the merged
\* Cookie header when not empty, the Authorization header when there is a token
UpstreamRequest(req, state, merged_cookies, has_body) ==
    Bind(CopyHeaders(req.headers, 1, <<>>, RemoteBase(state), LocalBase(state)),
         LAMBDA copied :
    Bind(IF merged_cookies # <<>> THEN AddHeader(copied, "cookie", merged_cookies)
         ELSE copied, LAMBDA with_cookie :
        [some |-> TRUE,
         method |-> req.method,
         url |-> RemoteBase(state) \o PathAndQuery(req),
         headers |-> IF state.token # <<>>
                     THEN AddHeader(with_cookie, "authorization", S_bearer \o state.token)
                     ELSE with_cookie,
         body |-> has_body]))

\* is_sse
IsSse(headers) ==
    LET got == HeaderGet(headers, "content-type")
    IN  got.some /\ got.val.text /\ Contains(got.val.val, S_event_stream)

\* the status test of the Location rewrite that takes every response
IsRedirectionAlways(status) == TRUE

\* StatusCode::is_redirection
IsRedirection(status) == 300 <= status /\ status <= 399

\* the Set-Cookie round of the response header loop: store_cookie with its
\* save, then the sanitized line for the browser unless the cookie is secure
Intercepted(acc, value, path_set, t) ==
    IF ~value.text THEN acc
    ELSE Bind(StoreCookie(value.val, acc.jar, t), LAMBDA r :
            [jar |-> r.jar,
             file |-> IF r.kind # "ignored" THEN SaveCookies(path_set, r.jar, acc.file)
                      ELSE acc.file,
             wrote |-> acc.wrote \/ (r.kind # "ignored" /\ path_set),
             out |-> IF ~r.is_secure /\ r.browser_cookie.some
                     THEN Append(acc.out, <<"set-cookie", Text(r.browser_cookie.val)>>)
                     ELSE acc.out])

\* one round of the response header loop
ResponseHeader(acc, name, value, is_redirect, remote_base, local_base, path_set, t) ==
    IF name \in {"transfer-encoding", "connection"} THEN acc
    ELSE IF name = "set-cookie" THEN Intercepted(acc, value, path_set, t)
    ELSE IF is_redirect /\ name = "location" /\ value.text
            /\ StartsWith(value.val, remote_base)
    THEN [acc EXCEPT !.out = Append(@, <<"location",
                                         Text(ReplaceN(value.val, remote_base, local_base, 1))>>)]
    ELSE [acc EXCEPT !.out = Append(@, <<name, value>>)]

RECURSIVE CopyResponseHeaders(_, _, _, _, _, _, _, _)
\* the response header loop of proxy_request
CopyResponseHeaders(headers, i, acc0, is_redirect, remote_base, local_base, path_set, t) ==
    Bind(acc0, LAMBDA acc :
        IF i > Len(headers) THEN acc
        ELSE CopyResponseHeaders(headers, i + 1,
                                 ResponseHeader(acc, headers[i][1], headers[i][2], is_redirect,
                                                remote_base, local_base, path_set, t),
                                 is_redirect, remote_base, local_base, path_set, t))

\* the guard of proxy_request that is never taken
UnconfiguredNever(state) == FALSE

\* state.server_url.is_empty()
Unconfigured(state) == state.server_url = <<>>

\* proxy_request from the merged Cookie header on; up is what the upstream does
ProxyExchange(req, up, state, merged_cookies, j, f, path_set, t) ==
    IF req.body = "error"
    THEN Outcome("upstream", Response(400, <<>>, "text"), NoUpstream, TRUE, j, f, FALSE)
    ELSE Bind(UpstreamRequest(req, state, merged_cookies, req.body = "bytes"), LAMBDA sent :
        IF ~up.send_ok
        THEN Outcome("upstream", Response(502, <<>>, "text"), sent, TRUE, j, f, FALSE)
        ELSE Bind(CopyResponseHeaders(up.headers, 1,
                                      [jar |-> j, file |-> f, wrote |-> FALSE, out |-> <<>>],
                                      IsRedirection(up.status),
                                      RemoteBase(state), LocalBase(state), path_set, t),
                  LAMBDA acc :
            Outcome("upstream",
                    IF IsSse(up.headers)
                    THEN Response(up.status,
                                  acc.out \o << <<"cache-control", Text(S_no_cache)>>,
                                                <<"x-accel-buffering", Text(S_no)>> >>,
                                  "stream")
                    ELSE IF up.body_ok
                    THEN Response(up.status,
                                  Append(acc.out,
                                         <<"content-length", Text(Decimal(up.body_len))>>),
                                  "bytes")
                    ELSE Response(502, <<>>, "text"),
                    sent, TRUE, acc.jar, acc.file, acc.wrote)))

\* proxy_request: the outcomes it can have, one for each order in which the
\* map of get_merged_cookies is iterated
ProxyRequest(req, up, state, j, f, path_set, t) ==
    IF Unconfigured(state)
    THEN {Outcome("upstream", Response(502, <<>>, "text"), NoUpstream, FALSE, j, f, FALSE)}
    ELSE Bind(PurgeExpired(j, t), LAMBDA purged :
         Bind(MergedMap(BrowserCookieHeader(req), PathAndQuery(req), purged), LAMBDA m :
            {ProxyExchange(req, up, state, FormatPairs([i \in 1..Len(m) |-> m[o[i]]]),
                           purged, f, path_set, t) : o \in Orders(Len(m))}))

\* handle_request: the outcomes it can have
HandleRequestOutcomes(req, up, state, j, f, path_set, t) ==
    Bind(Route(req.path), LAMBDA route :
        CASE route = "desktop" ->
                Bind(DesktopApi(req, up.app), LAMBDA d :
                    {Outcome(route, Response(d.status, <<>>, "text"), NoUpstream,
                             d.body_read, j, f, FALSE)})
          [] route = "bridge" ->
                {Outcome(route, Response(200, <<>>, "text"), NoUpstream, FALSE, j, f, FALSE)}
          [] route = "static" ->
                {Outcome(route, CuiStatic(up.disk, j), NoUpstream, FALSE, j, f, FALSE)}
          [] route = "admin_redirect" ->
                {Outcome(route, Response(301, << <<"location", Text(S_admin_prefix)>> >>, "none"),
                         NoUpstream, FALSE, j, f, FALSE)}
          [] route = "root_redirect" ->
                {Outcome(route, Response(307, << <<"location", Text(S_admin_prefix)>> >>, "none"),
                         NoUpstream, FALSE, j, f, FALSE)}
          [] OTHER -> ProxyRequest(req, up, state, j, f, path_set, t))

----------------------------------------------------------------------------
(* Requests and upstream behaviours of the pipeline specification           *)

Req(method, path, query, headers, body) ==
    [method |-> method, path |-> path, query |-> query, headers |-> headers, body |-> body]

\* what is outside the proxy when a request arrives: whether send() succeeds,
\* the status and headers of the upstream response, whether its body can be read
\* and how long it is, the desktop shell, the build directory
World(send_ok, status, headers, body_ok, body_len, app, disk) ==
    [send_ok |-> send_ok, status |-> status, headers |-> headers, body_ok |-> body_ok,
     body_len |-> body_len, app |-> app, disk |-> disk]

S_api == <<"/", "a", "p", "i">>
SC_plain == <<"a", "=", "1">>
SC_expiring == <<"a", "=", "2", ";", " ", "M", "a", "x", "-", "A", "g", "e", "=", "1">>
SC_delete == <<"a", "=", "1", ";", " ", "M", "a", "x", "-", "A", "g", "e", "=", "0">>
SC_domain == <<"a", "=", "1", ";", " ", "D", "o", "m", "a", "i", "n", "=", "d">>
SC_flag == <<"a", "=", "1", ";", " ", "S", "e", "c", "u", "r", "e">>
SC_prefix == <<"_", "_", "S", "e", "c", "u", "r", "e", "-", "t", "=", "x">>
SC_nameless == <<"x">>
SC_locale == <<"_", "_", "l", "o", "c", "a", "l", "e", "=", "1">>

Methods == {"GET", "POST"}

PipePaths ==
    {S_slash, S_admin, S_admin_prefix, S_admin_prefix \o <<"a">>,
     S_fullscreen, S_desktop_prefix \o <<"x">>, <<"/", "_", "_", "y", "a", "o", "_", "d", "e", "s", "k", "t", "o", "p">>,
     S_bridge, S_bridge \o <<"/">>}

PipeRequests ==
    {Req(m, p, NoneStr, <<>>, "empty") : m \in Methods, p \in PipePaths}
        \cup
    {Req("GET", S_api, NoneStr, <<>>, "empty"),
     Req("POST", S_api, NoneStr,
         << <<"authorization", Text(<<"B", "a", "s", "i", "c", " ", "c">>)>>, <<"cookie", Text(<<"a", "=", "9">>)>> >>, "bytes"),
     Req("POST", S_api, NoneStr, << <<"cookie", Text(<<"a", "=", "9">>)>> >>, "error"),
     Req("GET", S_api, SomeStr(<<"q">>),
         << <<"host", Text(<<"l">>)>>,
            <<"origin", Text(S_local_host \o Decimal(DefaultPort))>>,
            <<"referer", Text(S_local_host \o Decimal(DefaultPort) \o <<"/", "x">>)>>,
            <<"authorization", Opaque>> >>, "empty")}

\* what the desktop shell and the build directory can offer
Apps == {"no_window", "window"}
Disks == {"not_built", "forbidden", "read_error", "asset", "html"}

\* an upstream behaviour, beside a shell with a window and a build with the page
Upstream(send_ok, status, headers, body_ok, body_len) ==
    World(send_ok, status, headers, body_ok, body_len, "window", "html")

PipeWorlds ==
    {Upstream(FALSE, 200, <<>>, TRUE, 0),
     Upstream(TRUE, 200, <<>>, TRUE, 0),
     Upstream(TRUE, 200, << <<"content-type", Text(<<"t", "e", "x", "t", "/", "h", "t", "m", "l">>)>>,
                            <<"content-length", Text(<<"2">>)>>,
                            <<"transfer-encoding", Text(<<"c", "h", "u", "n", "k", "e", "d">>)>>,
                            <<"set-cookie", Text(SC_plain)>>,
                            <<"set-cookie", Text(SC_prefix)>> >>, TRUE, 2),
     Upstream(TRUE, 200, << <<"set-cookie", Text(SC_domain)>>,
                            <<"location", Text(<<"h", "/", "h">>)>>,
                            <<"set-cookie", Text(SC_expiring)>> >>, TRUE, 10),
     Upstream(TRUE, 200, << <<"set-cookie", Text(SC_expiring)>> >>, FALSE, 0),
     Upstream(TRUE, 302, << <<"set-cookie", Text(SC_plain)>>,
                            <<"location", Text(<<"h", "/", "x">>)>>,
                            <<"set-cookie", Text(SC_expiring)>> >>, FALSE, 0),
     Upstream(TRUE, 200, << <<"set-cookie", Opaque>>,
                            <<"set-cookie", Text(SC_nameless)>>,
                            <<"set-cookie", Text(SC_flag)>> >>, TRUE, 0),
     Upstream(TRUE, 302, << <<"location", Text(<<"h", "/", "h">>)>>,
                            <<"set-cookie", Text(SC_delete)>>,
                            <<"connection", Text(<<"c", "l", "o", "s", "e">>)>> >>, TRUE, 0),
     Upstream(TRUE, 200, << <<"content-type", Text(S_event_stream)>>,
                            <<"set-cookie", Text(SC_plain)>> >>, TRUE, 0),
     Upstream(TRUE, 302, << <<"location", Text(<<"x", "/", "h">>)>>,
                            <<"location", Opaque>> >>, TRUE, 0),
     Upstream(TRUE, 200, << <<"content-length", Text(<<"5">>)>>,
                            <<"content-type", Text(S_event_stream)>> >>, TRUE, 0)}

\* the worlds a request is tried in: each handler meets every value of what it
\* looks at, and one value of what it never looks at
DesktopWorlds == {World(TRUE, 200, <<>>, TRUE, 0, a, "html") : a \in Apps}

StaticWorlds == {World(TRUE, 200, <<>>, TRUE, 0, "window", d) : d \in Disks}

PlainWorlds ==
    {Upstream(TRUE, 200, <<>>, TRUE, 0),
     Upstream(TRUE, 200, << <<"set-cookie", Text(SC_plain)>> >>, TRUE, 0)}

QuietWorlds == {Upstream(TRUE, 200, <<>>, TRUE, 0)}

WorldsOf(req) ==
    Bind(Route(req.path), LAMBDA route :
        CASE route = "desktop" -> DesktopWorlds
          [] route = "static" -> StaticWorlds
          [] route = "upstream" ->
                IF req.path = S_api /\ req.body # "error" /\ ~req.query.some THEN PipeWorlds
                ELSE PlainWorlds
          [] OTHER -> QuietWorlds)

----------------------------------------------------------------------------
(* The pipeline specification: requests arrive at a proxy whose listener is *)
(* bound, between updates of the proxy state and the passing of time        *)

\* handle_request(req, client, cui_dist)
HandleRequest(req, up) ==
    \E o \in HandleRequestOutcomes(req, [up EXCEPT !.app = IF app_handle.some THEN @ ELSE "none"],
                                    proxy, jar, file, cookie_file, now) :
        /\ jar' = o.jar
        /\ file' = o.file
        /\ ret' = Call("handle_request", <<req, up>>, o, o.wrote)
        /\ UNCHANGED <<cookie_file, now, proxy, thread, lock, hist, listeners, app_handle, browser_cookies>>

InitPipe ==
    /\ jar = <<>>
    /\ file = FileAbsent
    /\ cookie_file \in BOOLEAN
    /\ now = 0
    /\ proxy = StartProxyServer(ProxyDefault, DefaultPort)
    /\ ret = Call("init", <<>>, <<>>, FALSE)
    /\ Quiet
    /\ listeners = {DefaultPort}
    /\ app_handle = SomeHandle("main")
    /\ browser_cookies = <<>>

NextPipe ==
    \/ Tick
    \/ \E s \in {<<>>} \cup ServerUrls, t \in Tokens :
          UpdateProxyStateCall(s, t, S_openapi, <<>>)
    \/ \E req \in PipeRequests : \E up \in WorldsOf(req) : HandleRequest(req, up)

SpecPipe == InitPipe /\ [][NextPipe]_vars

----------------------------------------------------------------------------
(* The desktop shell: requests for the paths the proxy answers itself, from *)
(* before the setup of the app has registered its handle                    *)

\* set_app_handle(handle)
SetAppHandleCall(handle) ==
    /\ app_handle' = SetAppHandle(app_handle, handle)
    /\ ret' = Call("set_app_handle", <<handle>>, <<>>, FALSE)
    /\ UNCHANGED <<jar, file, cookie_file, now, proxy, thread, lock, hist, listeners, browser_cookies>>

AppHandles == {"main", "other"}

\* the requests for desktop API paths
ShellRequests == {req \in PipeRequests : Route(req.path) = "desktop"}

InitShell ==
    /\ jar = <<>>
    /\ file = FileAbsent
    /\ cookie_file = FALSE
    /\ now = 0
    /\ proxy = StartProxyServer(ProxyDefault, DefaultPort)
    /\ ret = Call("init", <<>>, <<>>, FALSE)
    /\ Quiet
    /\ listeners = {DefaultPort}
    /\ app_handle = NoHandle
    /\ browser_cookies = <<>>

NextShell ==
    \/ \E handle \in AppHandles : SetAppHandleCall(handle)
    \/ \E s \in ServerUrls, t \in Tokens : UpdateProxyStateCall(s, t, S_openapi, <<>>)
    \/ \E req \in ShellRequests : \E up \in WorldsOf(req) : HandleRequest(req, up)

SpecShell == InitShell /\ [][NextShell]_vars

----------------------------------------------------------------------------
(* The build directory: serve_cui_static on a file system of directories,   *)
(* files and symbolic links. A path is the sequence of its components from  *)
(* the root                                                                 *)

MaxLinks == 2       \* symbolic links followed in one resolution of a path

S_index == <<"i", "n", "d", "e", "x", ".", "h", "t", "m", "l">>
S_dot_html == <<".", "h", "t", "m", "l">>
S_dotdot == <<".", ".">>

\* Path::components of a path given as text: separators that repeat or end
\* the path and components "." are dropped, components ".." are kept
Components(str) == SelectSeq(Split(str, "/"), LAMBDA c : c # <<>> /\ c # <<".">>)

\* PathBuf::join: a relative path is appended, an absolute one replaces the base
PathJoin(base, str) ==
    IF str # <<>> /\ str[1] = "/" THEN Components(str) ELSE base \o Components(str)

\* Path::starts_with: component by component
PathStartsWith(path, base) ==
    Len(base) <= Len(path) /\ SubSeq(path, 1, Len(base)) = base

\* the nodes of a file system
Dir == [kind |-> "dir", to |-> <<>>]
File == [kind |-> "file", to |-> <<>>]
Link(to) == [kind |-> "link", to |-> to]

NoPath == [ok |-> FALSE, path |-> <<>>]

IsDirNode(fs, path) == path = <<>> \/ (path \in DOMAIN fs /\ fs[path].kind = "dir")

RECURSIVE Walk(_, _, _, _)
\* the resolution of a path from a resolved directory on: ".." goes to the
\* parent, a link is replaced by its target, and a component that does not
\* exist, or that follows something that is no directory, is an error
Walk(fs, cur, rest, links) ==
    IF rest = <<>> THEN [ok |-> TRUE, path |-> cur]
    ELSE IF ~IsDirNode(fs, cur) THEN NoPath
    ELSE IF Head(rest) = S_dotdot
    THEN Walk(fs, IF cur = <<>> THEN <<>> ELSE SubSeq(cur, 1, Len(cur) - 1), Tail(rest), links)
    ELSE Bind(Append(cur, Head(rest)), LAMBDA next :
            IF next \notin DOMAIN fs THEN NoPath
            ELSE IF fs[next].kind = "link"
            THEN IF links = 0 THEN NoPath
                 ELSE Walk(fs, <<>>, fs[next].to \o Tail(rest), links - 1)
            ELSE Walk(fs, next, Tail(rest), links))

\* Path::canonicalize
Canonicalize(fs, path) == Walk(fs, <<>>, path, MaxLinks)

\* Path::exists
Exists(fs, path) == Canonicalize(fs, path).ok

\* Path::is_file
IsFile(fs, path) ==
    Bind(Canonicalize(fs, path), LAMBDA c :
        c.ok /\ c.path \in DOMAIN fs /\ fs[c.path].kind = "file")

S_text_html == <<"t", "e", "x", "t", "/", "h", "t", "m", "l">>
S_octet_stream == <<"a", "p", "p", "l", "i", "c", "a", "t", "i", "o", "n", "/", "o", "c", "t", "e", "t", "-", "s", "t", "r", "e", "a", "m">>
S_public == <<"p", "u", "b", "l", "i", "c", ",", " ", "m", "a", "x", "-", "a", "g", "e", "=", "3", "6", "0", "0">>

\* the last index of s that holds the character ch, 0 when none does
LastIndex(s, ch) ==
    IF \E i \in 1..Len(s) : s[i] = ch
    THEN CHOOSE i \in 1..Len(s) : s[i] = ch /\ \A k \in (i + 1)..Len(s) : s[k] # ch
    ELSE 0

\* Path::extension: what follows the last '.' of the last component; none for
\* the component "..", for a name without '.', and for a name whose only '.'
\* is its first character
Extension(path) ==
    IF path = <<>> \/ path[Len(path)] = S_dotdot THEN NoneStr
    ELSE Bind(path[Len(path)], LAMBDA name :
            Bind(LastIndex(name, "."), LAMBDA dot :
                IF dot <= 1 THEN NoneStr ELSE SomeStr(Skip(name, dot))))

\* guess_mime
GuessMime(path) ==
    Bind(Extension(path), LAMBDA e :
        IF ~e.some THEN S_octet_stream
        ELSE CASE
             e.val = <<"h", "t", "m", "l">> ->
                <<"t", "e", "x", "t", "/", "h", "t", "m", "l", ";", " ", "c", "h", "a", "r", "s", "e", "t", "=", "u", "t", "f", "-", "8">>
          [] e.val = <<"j", "s">> ->
                <<"a", "p", "p", "l", "i", "c", "a", "t", "i", "o", "n", "/", "j", "a", "v", "a", "s", "c", "r", "i", "p", "t", ";", " ", "c", "h", "a", "r", "s", "e", "t", "=", "u", "t", "f", "-", "8">>
          [] e.val = <<"m", "j", "s">> ->
                <<"a", "p", "p", "l", "i", "c", "a", "t", "i", "o", "n", "/", "j", "a", "v", "a", "s", "c", "r", "i", "p", "t", ";", " ", "c", "h", "a", "r", "s", "e", "t", "=", "u", "t", "f", "-", "8">>
          [] e.val = <<"c", "s", "s">> ->
                <<"t", "e", "x", "t", "/", "c", "s", "s", ";", " ", "c", "h", "a", "r", "s", "e", "t", "=", "u", "t", "f", "-", "8">>
          [] e.val = <<"j", "s", "o", "n">> ->
                <<"a", "p", "p", "l", "i", "c", "a", "t", "i", "o", "n", "/", "j", "s", "o", "n", ";", " ", "c", "h", "a", "r", "s", "e", "t", "=", "u", "t", "f", "-", "8">>
          [] e.val = <<"p", "n", "g">> ->
                <<"i", "m", "a", "g", "e", "/", "p", "n", "g">>
          [] e.val = <<"j", "p", "g">> ->
                <<"i", "m", "a", "g", "e", "/", "j", "p", "e", "g">>
          [] e.val = <<"j", "p", "e", "g">> ->
                <<"i", "m", "a", "g", "e", "/", "j", "p", "e", "g">>
          [] e.val = <<"g", "i", "f">> ->
                <<"i", "m", "a", "g", "e", "/", "g", "i", "f">>
          [] e.val = <<"s", "v", "g">> ->
                <<"i", "m", "a", "g", "e", "/", "s", "v", "g", "+", "x", "m", "l">>
          [] e.val = <<"i", "c", "o">> ->
                <<"i", "m", "a", "g", "e", "/", "x", "-", "i", "c", "o", "n">>
          [] e.val = <<"w", "o", "f", "f">> ->
                <<"f", "o", "n", "t", "/", "w", "o", "f", "f">>
          [] e.val = <<"w", "o", "f", "f", "2">> ->
                <<"f", "o", "n", "t", "/", "w", "o", "f", "f", "2">>
          [] e.val = <<"t", "t", "f">> ->
                <<"f", "o", "n", "t", "/", "t", "t", "f">>
          [] e.val = <<"e", "o", "t">> ->
                <<"a", "p", "p", "l", "i", "c", "a", "t", "i", "o", "n", "/", "v", "n", "d", ".", "m", "s", "-", "f", "o", "n", "t", "o", "b", "j", "e", "c", "t">>
          [] e.val = <<"w", "a", "s", "m">> ->
                <<"a", "p", "p", "l", "i", "c", "a", "t", "i", "o", "n", "/", "w", "a", "s", "m">>
          [] e.val = <<"m", "a", "p">> ->
                <<"a", "p", "p", "l", "i", "c", "a", "t", "i", "o", "n", "/", "j", "s", "o", "n">>
          [] e.val = <<"t", "x", "t">> ->
                <<"t", "e", "x", "t", "/", "p", "l", "a", "i", "n", ";", " ", "c", "h", "a", "r", "s", "e", "t", "=", "u", "t", "f", "-", "8">>
          [] e.val = <<"x", "m", "l">> ->
                <<"a", "p", "p", "l", "i", "c", "a", "t", "i", "o", "n", "/", "x", "m", "l", ";", " ", "c", "h", "a", "r", "s", "e", "t", "=", "u", "t", "f", "-", "8">>
          [] OTHER -> S_octet_stream)

\* is_html of serve_cui_static: mime.starts_with("text/html")
IsHtml(path) == StartsWith(GuessMime(path), S_text_html)

\* the Content-Type and Cache-Control headers of a file that was read
StaticHeaders(file_path) ==
    <<<<"content-type", Text(GuessMime(file_path))>>,
      <<"cache-control", Text(IF IsHtml(file_path) THEN S_no_cache ELSE S_public)>>>>

\* what serve_cui_static found, the file whose contents it read and the path
\* it read it by
Served(disk, read, file_path) == [disk |-> disk, read |-> read, file_path |-> file_path]

\* serve_cui_static(path, cui_dist) up to its read of the file: the resolution
\* of the path, the guard, the fallback to index.html and tokio::fs::read
ServeCuiStatic(path, cui_dist, fs, readable) ==
    Bind(IF StartsWith(path, S_admin_prefix) THEN Skip(path, Len(S_admin_prefix)) ELSE <<>>,
         LAMBDA stripped :
    Bind(IF stripped = <<>> THEN S_index ELSE stripped, LAMBDA relative :
    Bind(Canonicalize(fs, PathJoin(cui_dist, relative)), LAMBDA resolved :
    Bind(cui_dist \o <<S_index>>, LAMBDA index :
        IF ~resolved.ok /\ ~Exists(fs, index) THEN Served("not_built", NoPath, <<>>)
        ELSE Bind(IF resolved.ok THEN resolved.path ELSE index, LAMBDA canonical :
             Bind(IF Canonicalize(fs, cui_dist).ok THEN Canonicalize(fs, cui_dist).path
                  ELSE cui_dist, LAMBDA cui_dist_canonical :
                IF ~PathStartsWith(canonical, cui_dist_canonical)
                THEN Served("forbidden", NoPath, <<>>)
                ELSE IF ~IsFile(fs, canonical) /\ ~Exists(fs, index)
                THEN Served("not_built", NoPath, <<>>)
                ELSE Bind(IF IsFile(fs, canonical) THEN canonical ELSE index,
                          LAMBDA file_path :
                        IF ~readable \/ ~IsFile(fs, file_path)
                        THEN Served("read_error", NoPath, <<>>)
                        ELSE Served(IF IsHtml(file_path) THEN "html" ELSE "asset",
                                    Canonicalize(fs, file_path), file_path))))))))

\* the bundle root, a link to it, a file outside of it
P_bundle == <<(<<"b">>)>>
P_alias == <<(<<"l">>)>>
P_secret == <<(<<"s">>)>>

\* file names of the build directory, one for every extension guess_mime knows
\* and some for none of them
TypedNames ==
    {<<"f", ".", "m", "j", "s">>,
     <<"f", ".", "c", "s", "s">>,
     <<"f", ".", "j", "s", "o", "n">>,
     <<"f", ".", "p", "n", "g">>,
     <<"f", ".", "j", "p", "g">>,
     <<"f", ".", "j", "p", "e", "g">>,
     <<"f", ".", "g", "i", "f">>,
     <<"f", ".", "s", "v", "g">>,
     <<"f", ".", "i", "c", "o">>,
     <<"f", ".", "w", "o", "f", "f">>,
     <<"f", ".", "w", "o", "f", "f", "2">>,
     <<"f", ".", "t", "t", "f">>,
     <<"f", ".", "e", "o", "t">>,
     <<"f", ".", "w", "a", "s", "m">>,
     <<"f", ".", "m", "a", "p">>,
     <<"f", ".", "t", "x", "t">>,
     <<"f", ".", "x", "m", "l">>,
     <<"f", ".", "H", "T", "M", "L">>,
     <<"f", ".">>,
     <<".", "t", "x", "t">>,
     <<"f">>,
     <<"f", ".", "x", ".", "h", "t", "m", "l">>,
     <<"f", ".", "b", "i", "n">>}

\* a build directory with an asset, a directory and a link that leaves it,
\* reached also through a link to the directory, next to a file outside
Built ==
    (P_bundle :> Dir)
        @@ (P_bundle \o <<<<"a", ".", "j", "s">>>> :> File)
        @@ (P_bundle \o <<(<<"d">>)>> :> Dir)
        @@ (P_bundle \o <<(<<"o">>)>> :> Link(P_secret))
        @@ (P_alias :> Link(P_bundle))
        @@ (P_secret :> File)
        @@ [p \in {P_bundle \o <<name>> : name \in TypedNames} |-> File]

\* the file systems: index.html is a file, is absent, or is a link to the
\* file outside; or nothing was built
StaticDisks ==
    {Built @@ (P_bundle \o <<S_index>> :> File),
     Built,
     Built @@ (P_bundle \o <<S_index>> :> Link(P_secret)),
     (P_secret :> File)}

\* cui_dist as get_cui_dist_path gives it: the directory, or a path to it
\* that is not in canonical form
StaticRoots == {P_bundle, P_alias}

\* the paths requested under /__yao_admin_root/
StaticPaths ==
    {S_admin_prefix \o rel :
        rel \in {<<>>, S_index, <<"a", ".", "j", "s">>, <<"d">>, <<"d", "/">>, <<"x">>,
                 <<".", ".", "/", "s">>, <<".", ".", "/", "x">>, <<"o">>, <<"/", "s">>, <<"d", "/", ".", ".", "/", "a", ".", "j", "s">>, <<"a", ".", "j", "s", "/", "x">>}
                    \cup TypedNames}

\* the response of serve_cui_static: Content-Type and Cache-Control come first
\* when a file was read
StaticResponse(served, j) ==
    IF served.disk \in {"asset", "html"}
    THEN [CuiStatic(served.disk, j) EXCEPT !.headers = StaticHeaders(served.file_path) \o @]
    ELSE CuiStatic(served.disk, j)

\* umi_locale of serve_cui_static
UmiLocale(locale_value) ==
    CASE locale_value = <<"z", "h", "-", "c", "n">> -> <<"z", "h", "-", "C", "N">>
      [] locale_value = <<"e", "n", "-", "u", "s">> -> <<"e", "n", "-", "U", "S">>
      [] locale_value = <<"j", "a", "-", "j", "p">> -> <<"j", "a", "-", "J", "P">>
      [] OTHER -> IF locale_value # <<>> THEN <<"e", "n", "-", "U", "S">> ELSE <<>>

\* the two values inject_script is formatted with, for an HTML file
InjectScript(served, j) ==
    IF served.disk = "html"
    THEN [some |-> TRUE, umi |-> UmiLocale(StaticJarRead(j).locale_value),
          theme |-> StaticJarRead(j).theme_value]
    ELSE [some |-> FALSE, umi |-> <<>>, theme |-> <<>>]

\* Set-Cookie values the upstream gives for the preferences
PreferenceInputs ==
    LocaleInputs \cup {<<"_", "_", "t", "h", "e", "m", "e", "=", "s", ";", " ", "S", "e", "c", "u", "r", "e">>}

\* ServeCuiStatic on the inputs of the static specification, computed once
ServedInputs ==
    [path \in StaticPaths, cui_dist \in StaticRoots, fs \in StaticDisks, readable \in BOOLEAN |->
        ServeCuiStatic(path, cui_dist, fs, readable)]

\* serve_cui_static(path, cui_dist), its read of the jar for an HTML file included
ServeCuiStaticCall(path, cui_dist, fs, readable) ==
    \E served \in {ServedInputs[path, cui_dist, fs, readable]} :
        /\ ret' = Call("serve_cui_static", <<path, cui_dist, fs, readable>>,
                       [response |-> StaticResponse(served, jar), read |-> served.read,
                        script |-> InjectScript(served, jar)],
                       FALSE)
        /\ UNCHANGED <<jar, file, cookie_file, now, proxy, thread, lock, hist, listeners, app_handle, browser_cookies>>

InitStatic ==
    /\ jar = <<>>
    /\ file = FileAbsent
    /\ cookie_file = FALSE
    /\ now = 0
    /\ proxy = StartProxyServer(ProxyDefault, DefaultPort)
    /\ ret = Call("init", <<>>, <<>>, FALSE)
    /\ Quiet
    /\ listeners = {DefaultPort}
    /\ app_handle = SomeHandle("main")
    /\ browser_cookies = <<>>

NextStatic ==
    \/ \E sc \in PreferenceInputs : StoreCookieCall(sc)
    \/ \E path \in StaticPaths, cui_dist \in StaticRoots, fs \in StaticDisks,
          readable \in BOOLEAN :
          ServeCuiStaticCall(path, cui_dist, fs, readable)

SpecStatic == InitStatic /\ [][NextStatic]_vars

----------------------------------------------------------------------------
(* Threads: the calls into PROXY_STATE and COOKIE_JAR step by step, each    *)
(* step between two points where another thread can run                     *)

\* RwLock::write grants the lock over free readers
CanWriteOverReaders(l) == l.writer = 0

\* RwLock::write: granted when nobody holds the lock
CanWrite(l) == l.writer = 0 /\ l.readers = {}

\* RwLock::read grants the lock over a writer
CanReadOverWriter(l) == TRUE

\* RwLock::read: granted when no writer holds the lock
CanRead(l) == l.writer = 0

\* jar.iter_mut().find(|c| c.name == name): the index of the first entry of
\* that name, 0 when there is none
FindName(j, name) ==
    LET at == {i \in 1..Len(j) : j[i].name = name}
    IN  IF at = {} THEN 0 ELSE CHOOSE i \in at : \A k \in at : i <= k

\* *existing = entry, or jar.push(entry)
PutAt(j, idx, entry) == IF idx = 0 THEN Append(j, entry) ELSE [j EXCEPT ![idx] = entry]

\* a write that took effect
Event(t, kind, arg) == [thread |-> t, kind |-> kind, arg |-> arg]

\* the calls a thread can make
ConcSetCookies == {SC_plain, SC_expiring, SC_delete, <<"_", "_", "l", "o", "c", "a", "l", "e", "=", "1">>}

ConcUpdates ==
    {<<<<"h", "/">>, <<"t">>, S_openapi, <<"a">>>>,
     <<<<"g">>, <<>>, S_legacy, <<>>>>}

ConcCalls ==
    {<<"store_cookie", sc>> : sc \in ConcSetCookies}
        \cup {<<"get_merged_cookies", <<<<"a", "=", "9">>, S_slash>>>>}
        \cup {<<"update_proxy_state", u>> : u \in ConcUpdates}
        \cup {<<"set_proxy_running", FALSE>>,
              <<"get_proxy_state", <<>>>>,
              <<"proxy_request", S_api>>}

\* where a call begins
FirstPc(op, arg, t) ==
    CASE op = "store_cookie" -> IF Parsed(arg, t).kind = "ignored" THEN "done" ELSE "w_lock"
      [] op \in {"get_merged_cookies", "clear_cookies"} -> "w_lock"
      [] op \in {"update_proxy_state", "set_proxy_running"} -> "u_lock"
      [] OTHER -> "g_lock"

At(t, pc) == thread[t].pc = pc

Goto(t, pc) == thread' = [thread EXCEPT ![t].pc = pc]

\* a thread enters a call
StartCall(t, call) ==
    /\ At(t, "idle")
    /\ thread' = [thread EXCEPT ![t] = [Idle EXCEPT !.op = call[1], !.arg = call[2],
                                                !.pc = FirstPc(call[1], call[2], now),
                                                !.from = Len(hist)]]
    /\ UNCHANGED <<jar, file, cookie_file, now, proxy, ret, lock, hist, listeners, app_handle, browser_cookies>>

\* COOKIE_JAR.write() in store_cookie, remove_cookie, purge_expired and
\* clear_cookies
JarWriteLock(t) ==
    /\ At(t, "w_lock")
    /\ CanWrite(lock.jar)
    /\ lock' = [lock EXCEPT !.jar.writer = t]
    /\ Goto(t, IF thread[t].op = "store_cookie" /\ Parsed(thread[t].arg, now).kind = "stored"
               THEN "w_find" ELSE "w_retain")
    /\ UNCHANGED <<jar, file, cookie_file, now, proxy, ret, hist, listeners, app_handle, browser_cookies>>

\* store_cookie: the search of the upsert
UpsertFind(t) ==
    /\ At(t, "w_find")
    /\ thread' = [thread EXCEPT ![t].pc = "w_put",
                            ![t].idx = FindName(jar, Parsed(thread[t].arg, now).entry.name)]
    /\ UNCHANGED <<jar, file, cookie_file, now, proxy, ret, lock, hist, listeners, app_handle, browser_cookies>>

\* store_cookie: the replacement or the push of the upsert
UpsertPut(t) ==
    /\ At(t, "w_put")
    /\ \E p \in {Parsed(thread[t].arg, now)} :
          /\ jar' = PutAt(jar, thread[t].idx, p.entry)
          /\ hist' = Append(hist, Event(t, "stored", p.entry))
    /\ Goto(t, "w_unlock")
    /\ UNCHANGED <<file, cookie_file, now, proxy, ret, lock, listeners, app_handle, browser_cookies>>

\* jar.retain of remove_cookie and of purge_expired, jar.clear of clear_cookies
JarRetain(t) ==
    /\ At(t, "w_retain")
    /\ IF thread[t].op = "store_cookie"
       THEN \E p \in {Parsed(thread[t].arg, now)} :
              /\ jar' = RemoveCookie(jar, p.entry.name)
              /\ hist' = Append(hist, Event(t, "removed", p.entry.name))
       ELSE IF thread[t].op = "clear_cookies"
       THEN /\ jar' = <<>>
            /\ hist' = Append(hist, Event(t, "cleared", <<>>))
       ELSE /\ jar' = PurgeExpired(jar, now)
            /\ hist' = Append(hist, Event(t, "purged", now))
    /\ Goto(t, "w_unlock")
    /\ UNCHANGED <<file, cookie_file, now, proxy, ret, lock, listeners, app_handle, browser_cookies>>

\* the write guard is dropped; store_cookie, remove_cookie and clear_cookies
\* go on to save_cookies, which reads COOKIE_FILE, get_merged_cookies to its
\* read
JarWriteUnlock(t) ==
    /\ At(t, "w_unlock")
    /\ lock' = [lock EXCEPT !.jar.writer = 0]
    /\ thread' = [thread EXCEPT
                  ![t].pc = IF thread[t].op \in {"store_cookie", "clear_cookies"}
                            THEN IF cookie_file THEN "s_lock" ELSE "return"
                            ELSE "r_lock"]
    /\ UNCHANGED <<jar, file, cookie_file, now, proxy, ret, hist, listeners, app_handle, browser_cookies>>

\* a save_cookies that serializes the jar without the read lock
SaveLockNone(t) ==
    /\ At(t, "s_lock")
    /\ Goto(t, "s_serialize")
    /\ UNCHANGED <<jar, file, cookie_file, now, proxy, ret, lock, hist, listeners, app_handle, browser_cookies>>

\* save_cookies: COOKIE_JAR.read()
SaveLock(t) ==
    /\ At(t, "s_lock")
    /\ CanRead(lock.jar)
    /\ lock' = [lock EXCEPT !.jar.readers = @ \cup {t}]
    /\ Goto(t, "s_serialize")
    /\ UNCHANGED <<jar, file, cookie_file, now, proxy, ret, hist, listeners, app_handle, browser_cookies>>

\* save_cookies: serde_json::to_string_pretty(&*jar)
SaveSerialize(t) ==
    /\ At(t, "s_serialize")
    /\ thread' = [thread EXCEPT ![t].pc = "s_write", ![t].acc = Serialize(jar)]
    /\ UNCHANGED <<jar, file, cookie_file, now, proxy, ret, lock, hist, listeners, app_handle, browser_cookies>>

\* save_cookies: std::fs::write(&path, data)
SaveWrite(t) ==
    /\ At(t, "s_write")
    /\ file' = thread[t].acc
    /\ Goto(t, "s_unlock")
    /\ UNCHANGED <<jar, cookie_file, now, proxy, ret, lock, hist, listeners, app_handle, browser_cookies>>

\* save_cookies returns: the read guard is dropped
SaveUnlock(t) ==
    /\ At(t, "s_unlock")
    /\ lock' = [lock EXCEPT !.jar.readers = @ \ {t}]
    /\ Goto(t, "return")
    /\ UNCHANGED <<jar, file, cookie_file, now, proxy, ret, hist, listeners, app_handle, browser_cookies>>

\* store_cookie returns its StoreCookieResult
StoreReturn(t) ==
    /\ thread[t].op = "store_cookie"
    /\ At(t, "return") \/ At(t, "done")
    /\ thread[t].val = <<>>
    /\ \E p \in {Parsed(thread[t].arg, now)} :
          thread' = [thread EXCEPT ![t].pc = "done",
                               ![t].val = [is_secure |-> p.is_secure,
                                           browser_cookie |-> p.browser_cookie]]
    /\ UNCHANGED <<jar, file, cookie_file, now, proxy, ret, lock, hist, listeners, app_handle, browser_cookies>>

\* clear_cookies returns
ClearReturn(t) ==
    /\ thread[t].op = "clear_cookies"
    /\ At(t, "return")
    /\ Goto(t, "done")
    /\ UNCHANGED <<jar, file, cookie_file, now, proxy, ret, lock, hist, listeners, app_handle, browser_cookies>>

\* get_merged_cookies: the map of the browser's cookies, then COOKIE_JAR.read()
ReadLock(t) ==
    /\ At(t, "r_lock")
    /\ CanRead(lock.jar)
    /\ lock' = [lock EXCEPT !.jar.readers = @ \cup {t}]
    /\ thread' = [thread EXCEPT
                  ![t].pc = "r_iter",
                  ![t].idx = 1,
                  ![t].acc = IF thread[t].arg[1] # <<>>
                             THEN BrowserMap(<<>>, Split(thread[t].arg[1], ";"), 1)
                             ELSE <<>>]
    /\ UNCHANGED <<jar, file, cookie_file, now, proxy, ret, hist, listeners, app_handle, browser_cookies>>

\* get_merged_cookies: one round of the loop over the jar
ReadIter(t) ==
    /\ At(t, "r_iter")
    /\ thread[t].idx <= Len(jar)
    /\ \E c \in {jar[thread[t].idx]} :
          thread' = [thread EXCEPT
                     ![t].idx = @ + 1,
                     ![t].acc = IF PathMatches(thread[t].arg[2], c)
                                THEN MapInsert(@, c.name, c.value) ELSE @]
    /\ UNCHANGED <<jar, file, cookie_file, now, proxy, ret, lock, hist, listeners, app_handle, browser_cookies>>

\* get_merged_cookies: the loop is over, the map is formatted in the order it
\* iterates in, the read guard is dropped
ReadUnlock(t) ==
    /\ At(t, "r_iter")
    /\ thread[t].idx > Len(jar)
    /\ lock' = [lock EXCEPT !.jar.readers = @ \ {t}]
    /\ \E m \in {thread[t].acc} : \E o \in Orders(Len(m)) :
          thread' = [thread EXCEPT ![t].pc = "done",
                               ![t].val = FormatPairs([i \in 1..Len(m) |-> m[o[i]]])]
    /\ UNCHANGED <<jar, file, cookie_file, now, proxy, ret, hist, listeners, app_handle, browser_cookies>>

\* PROXY_STATE.write() in update_proxy_state and set_proxy_running
StateWriteLock(t) ==
    /\ At(t, "u_lock")
    /\ CanWrite(lock.state)
    /\ lock' = [lock EXCEPT !.state.writer = t]
    /\ Goto(t, IF thread[t].op = "update_proxy_state" THEN "u_server_url" ELSE "u_running")
    /\ UNCHANGED <<jar, file, cookie_file, now, proxy, ret, hist, listeners, app_handle, browser_cookies>>

\* one assignment to a field of the locked state
StateAssign(t) ==
    /\ thread[t].pc \in {"u_server_url", "u_token", "u_auth_mode", "u_dashboard", "u_running"}
    /\ proxy' = CASE At(t, "u_server_url") -> [proxy EXCEPT !.server_url = thread[t].arg[1]]
                  [] At(t, "u_token") -> [proxy EXCEPT !.token = thread[t].arg[2]]
                  [] At(t, "u_auth_mode") -> [proxy EXCEPT !.auth_mode = thread[t].arg[3]]
                  [] At(t, "u_dashboard") ->
                        [proxy EXCEPT !.dashboard = NormalizeDashboard(thread[t].arg[4])]
                  [] OTHER -> SetProxyRunning(proxy, thread[t].arg)
    /\ Goto(t, CASE At(t, "u_server_url") -> "u_token"
                 [] At(t, "u_token") -> "u_auth_mode"
                 [] At(t, "u_auth_mode") -> "u_dashboard"
                 [] OTHER -> "u_unlock")
    /\ UNCHANGED <<jar, file, cookie_file, now, ret, lock, hist, listeners, app_handle, browser_cookies>>

\* the mutator returns: the write guard is dropped, the write has taken effect
StateWriteUnlock(t) ==
    /\ At(t, "u_unlock")
    /\ lock' = [lock EXCEPT !.state.writer = 0]
    /\ hist' = Append(hist, Event(t, thread[t].op, thread[t].arg))
    /\ Goto(t, "done")
    /\ UNCHANGED <<jar, file, cookie_file, now, proxy, ret, listeners, app_handle, browser_cookies>>

\* get_proxy_state: PROXY_STATE.read()
StateReadLock(t) ==
    /\ At(t, "g_lock")
    /\ CanRead(lock.state)
    /\ lock' = [lock EXCEPT !.state.readers = @ \cup {t}]
    /\ Goto(t, "g_clone")
    /\ UNCHANGED <<jar, file, cookie_file, now, proxy, ret, hist, listeners, app_handle, browser_cookies>>

\* get_proxy_state: .clone(), after which the read guard is dropped
StateClone(t) ==
    /\ At(t, "g_clone")
    /\ lock' = [lock EXCEPT !.state.readers = @ \ {t}]
    /\ thread' = [thread EXCEPT ![t].snap = proxy,
                            ![t].val = IF thread[t].op = "get_proxy_state" THEN proxy ELSE <<>>,
                            ![t].pc = IF thread[t].op = "get_proxy_state" THEN "done"
                                      ELSE "q_target"]
    /\ UNCHANGED <<jar, file, cookie_file, now, proxy, ret, hist, listeners, app_handle, browser_cookies>>

\* proxy_request: remote_base, target_url and local_base from its copy of the state
RequestTarget(t) ==
    /\ At(t, "q_target")
    /\ thread' = [thread EXCEPT
                  ![t].pc = "q_token",
                  ![t].acc = <<RemoteBase(thread[t].snap) \o thread[t].arg,
                               LocalBase(thread[t].snap)>>]
    /\ UNCHANGED <<jar, file, cookie_file, now, proxy, ret, lock, hist, listeners, app_handle, browser_cookies>>

\* proxy_request: the Authorization header from its copy of the state
RequestToken(t) ==
    /\ At(t, "q_token")
    /\ thread' = [thread EXCEPT
                  ![t].pc = "done",
                  ![t].val = [target_url |-> thread[t].acc[1],
                              local_base |-> thread[t].acc[2],
                              authorization |-> IF thread[t].snap.token # <<>>
                                                THEN SomeStr(S_bearer \o thread[t].snap.token)
                                                ELSE NoneStr]]
    /\ UNCHANGED <<jar, file, cookie_file, now, proxy, ret, lock, hist, listeners, app_handle, browser_cookies>>

\* the jar when the threads start: two entries to keep and, between them, one
\* that has expired
ConcJar ==
    <<Entry(<<"a">>, <<"0">>, S_slash, 0, FALSE),
      Entry(S_theme, <<"0">>, S_slash, 1, FALSE),
      Entry(S_locale, <<"0">>, S_slash, 0, TRUE)>>

InitConc ==
    /\ jar = ConcJar
    /\ file = Serialize(ConcJar)
    /\ cookie_file = TRUE
    /\ now = 1
    /\ proxy = StartProxyServer(ProxyDefault, DefaultPort)
    /\ ret = Call("init", <<>>, <<>>, FALSE)
    /\ Quiet
    /\ listeners = {DefaultPort}
    /\ app_handle = SomeHandle("main")
    /\ browser_cookies = <<>>

NextConc ==
    \E t \in Threads :
        \/ \E call \in ConcCalls : StartCall(t, call)
        \/ JarWriteLock(t)
        \/ UpsertFind(t)
        \/ UpsertPut(t)
        \/ JarRetain(t)
        \/ JarWriteUnlock(t)
        \/ SaveLock(t)
        \/ SaveSerialize(t)
        \/ SaveWrite(t)
        \/ SaveUnlock(t)
        \/ StoreReturn(t)
        \/ ReadLock(t)
        \/ ReadIter(t)
        \/ ReadUnlock(t)
        \/ StateWriteLock(t)
        \/ StateAssign(t)
        \/ StateWriteUnlock(t)
        \/ StateReadLock(t)
        \/ StateClone(t)
        \/ RequestTarget(t)
        \/ RequestToken(t)

SpecConc == InitConc /\ [][NextConc]_vars

----------------------------------------------------------------------------
(* The save specification: threads that store and clear cookies at once,    *)
(* with a persistence path set and the jar as load_cookies left it          *)

SaveCalls ==
    {<<"store_cookie", sc>> : sc \in {SC_plain, SC_expiring, SC_delete, SC_locale}}
        \cup {<<"clear_cookies", <<>>>>}

InitSave ==
    /\ jar \in {<<>>, <<Entry(<<"a">>, <<"0">>, S_slash, 0, FALSE)>>}
    /\ file = Serialize(jar)
    /\ cookie_file = TRUE
    /\ now = 1
    /\ proxy = StartProxyServer(ProxyDefault, DefaultPort)
    /\ ret = Call("init", <<>>, <<>>, FALSE)
    /\ Quiet
    /\ listeners = {DefaultPort}
    /\ app_handle = SomeHandle("main")
    /\ browser_cookies = <<>>

NextSave ==
    \E t \in Threads :
        \/ \E call \in SaveCalls : StartCall(t, call)
        \/ JarWriteLock(t)
        \/ UpsertFind(t)
        \/ UpsertPut(t)
        \/ JarRetain(t)
        \/ JarWriteUnlock(t)
        \/ SaveLock(t)
        \/ SaveSerialize(t)
        \/ SaveWrite(t)
        \/ SaveUnlock(t)
        \/ StoreReturn(t)
        \/ ClearReturn(t)

SpecSave == InitSave /\ [][NextSave]_vars

----------------------------------------------------------------------------
(* A Set-Cookie value as a reader of the header sees it: the ';'-separated  *)
(* pieces, the name and value of the first piece, the attributes after it   *)

GivenFirst(sc) == SplitOnce(Trim(Split(sc, ";")[1]), "=")

GivenName(sc) == IF GivenFirst(sc).found THEN Trim(GivenFirst(sc).left) ELSE <<>>

GivenValue(sc) == IF GivenFirst(sc).found THEN Trim(GivenFirst(sc).right) ELSE <<>>

\* the first piece is name=value with a name
WellFormed(sc) == GivenFirst(sc).found /\ GivenName(sc) # <<>>

\* the attributes, each without its surrounding whitespace
GivenAttrs(sc) ==
    LET parts == Split(sc, ";")
    IN  [i \in 1..(Len(parts) - 1) |-> Trim(parts[i + 1])]

\* an attribute equal to the lower-case word, in any letter case
HasAttr(sc, word) ==
    \E i \in 1..Len(GivenAttrs(sc)) : ToLower(GivenAttrs(sc)[i]) = word

\* the integer of a Max-Age attribute
MaxAgeOf(attr) ==
    IF StartsWith(ToLower(attr), S_max_age_eq)
    THEN ParseI64(Trim(Skip(attr, Len(S_max_age_eq))))
    ELSE [ok |-> FALSE, val |-> 0]

\* some Max-Age attribute carries an integer n <= 0
IsDeleting(sc) ==
    \E i \in 1..Len(GivenAttrs(sc)) :
        MaxAgeOf(GivenAttrs(sc)[i]).ok /\ MaxAgeOf(GivenAttrs(sc)[i]).val <= 0

\* the marks of a secure cookie: a __Secure- or __Host- name, a Secure attribute
MarkedSecure(sc) ==
    \/ StartsWith(GivenName(sc), S_SecurePrefix)
    \/ StartsWith(GivenName(sc), S_HostPrefix)
    \/ HasAttr(sc, S_secure)

NotForBrowser == [is_secure |-> TRUE, browser_cookie |-> NoneStr]
Nothing == [is_secure |-> FALSE, browser_cookie |-> NoneStr]

JarNames(j) == {j[i].name : i \in 1..Len(j)}

----------------------------------------------------------------------------
(* Properties of store_cookie, checked under SpecParse                      *)

\* C1 as stated: every Set-Cookie with a __Secure- or __Host- name or a Secure
\* attribute makes store_cookie return is_secure = true and browser_cookie =
\* none, whatever its other attributes are.
C1_SecureAlways ==
    (ret.op = "store_cookie" /\ MarkedSecure(ret.args[1])) => ret.val = NotForBrowser

\* C1: a Set-Cookie with a __Secure- or __Host- name or a Secure attribute is
\* never handed to the browser; when its first piece is name=value with a name
\* and no Max-Age attribute carries an integer n <= 0, store_cookie returns
\* is_secure = true and browser_cookie = none and the jar holds the cookie.
C1_SecureClassification ==
    (ret.op = "store_cookie" /\ MarkedSecure(ret.args[1])) =>
        /\ ret.val.browser_cookie = NoneStr
        /\ (WellFormed(ret.args[1]) /\ ~IsDeleting(ret.args[1])) =>
              /\ ret.val = NotForBrowser
              /\ GivenName(ret.args[1]) \in JarNames(jar)

\* a __Host- cookie without a Secure attribute was stored and withheld
C1_Witness ==
    /\ ret.op = "store_cookie"
    /\ StartsWith(GivenName(ret.args[1]), S_HostPrefix)
    /\ ~HasAttr(ret.args[1], S_secure)
    /\ ~IsDeleting(ret.args[1])
    /\ ret.val = NotForBrowser
    /\ GivenName(ret.args[1]) \in JarNames(jar)

\* C2: deletion law. When the jar holds an entry named X, store_cookie of a
\* Set-Cookie for X with a Max-Age n <= 0 leaves a jar one entry shorter, with no
\* entry named X and every other entry as it was, in the same order, and returns
\* is_secure = false and browser_cookie = none.
C2_DeletionLaw ==
    [][(/\ ret'.op = "store_cookie"
        /\ WellFormed(ret'.args[1])
        /\ IsDeleting(ret'.args[1])
        /\ GivenName(ret'.args[1]) \in JarNames(jar))
       => (/\ Len(jar') = Len(jar) - 1
           /\ GivenName(ret'.args[1]) \notin JarNames(jar')
           /\ jar' = SelectSeq(jar, LAMBDA c : c.name # GivenName(ret'.args[1]))
           /\ ret'.val = Nothing)]_vars

\* "a=1; Max-Age=0"-like input on the jar <<a, __Secure-t>>: only __Secure-t is left
C2_Witness ==
    /\ ret.op = "store_cookie"
    /\ GivenName(ret.args[1]) = <<"a">>
    /\ IsDeleting(ret.args[1])
    /\ Len(jar) = 1
    /\ jar[1].name = <<"_", "_", "S", "e", "c", "u", "r", "e", "-", "t">>
    /\ ret.val = Nothing

\* the pieces of a sanitized Set-Cookie, each without its surrounding whitespace
SanitizedParts(out) ==
    LET parts == Split(out, ";") IN [i \in 1..Len(parts) |-> Trim(parts[i])]

\* an attribute the browser must not see
Stripped(attr) ==
    \/ ToLower(attr) = S_secure
    \/ StartsWith(ToLower(attr), S_domain_eq)
    \/ ToLower(attr) = S_samesite_none

\* C8: the browser_cookie of a stored non-secure Set-Cookie begins with
\* name=value, has no Secure, Domain= or SameSite=None attribute, keeps every
\* other attribute of the original in the original order, and ends with an added
\* SameSite=Lax exactly when the original carried SameSite=None.
C8_Sanitized ==
    (ret.op = "store_cookie" /\ ret.val.browser_cookie.some) =>
        LET sc == ret.args[1]
            out == SanitizedParts(ret.val.browser_cookie.val)
            kept == SelectSeq(GivenAttrs(sc), LAMBDA a : ~Stripped(a))
        IN  /\ ~ret.val.is_secure
            /\ out[1] = GivenName(sc) \o <<"=">> \o GivenValue(sc)
            /\ \A i \in 2..Len(out) : ~Stripped(out[i])
            /\ Tail(out) = kept \o (IF HasAttr(sc, S_samesite_none)
                                     THEN <<S_SameSiteLax>> ELSE <<>>)

\* a cookie with Domain= and SameSite=None reached the browser as
\* "name=value; SameSite=Lax"
C8_Witness ==
    /\ ret.op = "store_cookie"
    /\ ret.val.browser_cookie.some
    /\ HasAttr(ret.args[1], S_samesite_none)
    /\ \E i \in 1..Len(GivenAttrs(ret.args[1])) :
          StartsWith(ToLower(GivenAttrs(ret.args[1])[i]), S_domain_eq)
    /\ SanitizedParts(ret.val.browser_cookie.val)
          = <<GivenName(ret.args[1]) \o <<"=">> \o GivenValue(ret.args[1]), S_SameSiteLax>>

\* C9: store_cookie on an input whose first piece has no '=' or has an empty
\* name returns is_secure = false and browser_cookie = none, leaves the jar as
\* it was and writes nothing to the persistence file, whatever attributes follow.
C9_MalformedIgnored ==
    [][(ret'.op = "store_cookie" /\ ~WellFormed(ret'.args[1]))
       => (/\ ret'.val = Nothing
           /\ jar' = jar
           /\ file' = file
           /\ ~ret'.wrote)]_vars

\* "=1; Secure"-like input with a persistence path set and a jar of two entries
C9_Witness ==
    /\ ret.op = "store_cookie"
    /\ ~WellFormed(ret.args[1])
    /\ HasAttr(ret.args[1], S_secure)
    /\ IsDeleting(ret.args[1])
    /\ cookie_file
    /\ Len(jar) = 2
    /\ file = FileAbsent
    /\ ret.val = Nothing

----------------------------------------------------------------------------
(* Properties of the jar, checked under Spec                                *)

Last(S) == CHOOSE i \in S : \A k \in S : k <= i

\* the path the last Path attribute gives, "/" without one
GivenPath(sc) ==
    LET at == {i \in 1..Len(GivenAttrs(sc)) :
                  StartsWith(ToLower(GivenAttrs(sc)[i]), S_path_eq)}
    IN  IF at = {} THEN S_slash
        ELSE Trim(Skip(GivenAttrs(sc)[Last(at)], Len(S_path_eq)))

\* the expiry the last Max-Age attribute with an integer n > 0 gives at time t,
\* 0 (a session cookie) without one
GivenExpiry(sc, t) ==
    LET at == {i \in 1..Len(GivenAttrs(sc)) :
                  MaxAgeOf(GivenAttrs(sc)[i]).ok /\ MaxAgeOf(GivenAttrs(sc)[i]).val > 0}
    IN  IF at = {} THEN 0
        ELSE t + MaxAgeOf(GivenAttrs(sc)[Last(at)]).val

C4_NoExpiredRead ==
    /\ ret.op \in {"get_merged_cookies", "get_cookies_header"}
          => \A i \in 1..Len(jar) : Unexpired(jar[i], now)
    /\ ret.op = "get_cookies_header"
          => ret.val = CookiesHeader(ret.args[1], PurgeExpired(jar, now))
    /\ ret.op = "cookie_count"
          => ret.val = Cardinality({i \in 1..Len(jar) : Unexpired(jar[i], now)})
    /\ ret.op = "serve_cui_static"
          => ret.val = StaticJarRead(PurgeExpired(jar, now))

\* C5 as stated: with a persistence path, every step that changes the jar
\* leaves the file holding exactly the new jar; without one, no step writes.
C5_PersistedOnMutation ==
    [][/\ (cookie_file /\ jar' # jar) => file' = Serialize(jar')
       /\ ~cookie_file => (file' = file /\ ~ret'.wrote)]_vars

\* the <<name, value>> pairs of a Cookie header
HeaderPairs(h) ==
    IF h = <<>> THEN <<>>
    ELSE LET pieces == SelectSeq(Split(h, ";"), LAMBDA x : FirstIndex(x, "=") # 0)
         IN  [i \in 1..Len(pieces) |->
                 <<Trim(SplitOnce(Trim(pieces[i]), "=").left),
                   Trim(SplitOnce(Trim(pieces[i]), "=").right)>>]

Range(f) == {f[i] : i \in DOMAIN f}

PairNames(ps) == {ps[i][1] : i \in 1..Len(ps)}

Occurrences(ps, name) == Cardinality({i \in 1..Len(ps) : ps[i][1] = name})

\* the value a name has in a header: that of its last occurrence
HeaderValue(ps, name) == ps[Last({i \in 1..Len(ps) : ps[i][1] = name})][2]

\* the unexpired entries of j whose path is a literal prefix of request_path
Matching(j, request_path, t) ==
    {i \in 1..Len(j) : Unexpired(j[i], t) /\ StartsWith(request_path, j[i].path)}

\* C6: merge precedence. In the result of get_merged_cookies every name of an
\* unexpired jar entry whose path matches appears exactly once, with the jar's
\* value, whether or not the browser header carries it; every other name of
\* the browser header appears exactly once, with the browser's value; and no
\* other name appears.
C6_MergePrecedence ==
    ret.op = "get_merged_cookies" =>
        LET browser == HeaderPairs(ret.args[1])
            res == HeaderPairs(ret.val)
            m == Matching(jar, ret.args[2], now)
            from_jar == {jar[i].name : i \in m}
        IN  /\ \A i \in m : /\ Occurrences(res, jar[i].name) = 1
                            /\ <<jar[i].name, jar[i].value>> \in Range(res)
            /\ \A n \in PairNames(browser) \ from_jar :
                  /\ Occurrences(res, n) = 1
                  /\ <<n, HeaderValue(browser, n)>> \in Range(res)
            /\ PairNames(res) = from_jar \cup PairNames(browser)

\* the browser sent a=1 and c=3, the jar holds a=2 for this path: a=2 and c=3
C6_Witness ==
    /\ ret.op = "get_merged_cookies"
    /\ <<"a">> \in PairNames(HeaderPairs(ret.args[1]))
    /\ HeaderValue(HeaderPairs(ret.args[1]), <<"a">>) = <<"1">>
    /\ \E i \in Matching(jar, ret.args[2], now) :
          jar[i].name = <<"a">> /\ jar[i].value = <<"2">>
    /\ Range(HeaderPairs(ret.val)) = {<<(<<"a">>), (<<"2">>)>>, <<(<<"c">>), (<<"3">>)>>}

\* C7 as stated: the name=value of a jar entry whose path is not a literal
\* prefix of request_path is not in the result of get_merged_cookies, whatever
\* the browser header is, and that of an unexpired entry whose path is a literal
\* prefix always is.
C7_PathFilter ==
    ret.op = "get_merged_cookies" =>
        \A i \in 1..Len(jar) :
            IF StartsWith(ret.args[2], jar[i].path)
            THEN Unexpired(jar[i], now)
                    => <<jar[i].name, jar[i].value>> \in Range(HeaderPairs(ret.val))
            ELSE <<jar[i].name, jar[i].value>> \notin Range(HeaderPairs(ret.val))

\* C7: a jar entry whose path is not a literal prefix of request_path gives
\* nothing to the result of get_merged_cookies: its name is in the result only
\* when the browser header carries that name, and then once, with the browser's
\* value; an unexpired entry whose path is a literal prefix (as /api is of
\* /apix) is always in the result.
C7_PathFilterOfJar ==
    ret.op = "get_merged_cookies" =>
        LET browser == HeaderPairs(ret.args[1])
            res == HeaderPairs(ret.val)
        IN  \A i \in 1..Len(jar) :
                IF StartsWith(ret.args[2], jar[i].path)
                THEN Unexpired(jar[i], now)
                        => <<jar[i].name, jar[i].value>> \in Range(res)
                ELSE /\ jar[i].name \in PairNames(res) <=> jar[i].name \in PairNames(browser)
                     /\ jar[i].name \in PairNames(res)
                           => /\ Occurrences(res, jar[i].name) = 1
                              /\ <<jar[i].name, HeaderValue(browser, jar[i].name)>>
                                    \in Range(res)

\* the jar holds a=1 for /api, the request is for / and the browser sent a=1
\* itself: a=1 is in the result, from the browser
C7_Witness ==
    /\ ret.op = "get_merged_cookies"
    /\ ret.args[2] = S_slash
    /\ \E i \in 1..Len(jar) :
          /\ jar[i].name = <<"a">>
          /\ jar[i].value = <<"1">>
          /\ jar[i].path = <<"/", "a", "p", "i">>
    /\ <<"a">> \in PairNames(HeaderPairs(ret.args[1]))
    /\ <<(<<"a">>), (<<"1">>)>> \in Range(HeaderPairs(ret.val))

----------------------------------------------------------------------------
(* Properties of the proxy state, checked under SpecProxy                   *)

\* C10 as stated: the dashboard normalization of update_proxy_state is
\* idempotent: normalizing the stored dashboard again gives the stored dashboard.
C10_Idempotent ==
    ret.op = "update_proxy_state" =>
        NormalizeDashboard(proxy.dashboard) = proxy.dashboard


\* C11 as stated: in every reachable proxy state server_url has no trailing '/'.
C11_ServerUrlCanonical ==
    proxy.server_url = <<>> \/ proxy.server_url[Len(proxy.server_url)] # "/"

\* C12: update_proxy_state overwrites server_url, token, auth_mode and
\* dashboard (the last with the normalized argument) and leaves running and port
\* as they were; set_proxy_running changes running only; start_proxy_server
\* with a bound listener changes running and port only, and changes nothing
\* when the bind fails.
C12_Frame ==
    [][/\ ret'.op = "update_proxy_state"
            => proxy' = [running |-> proxy.running, port |-> proxy.port,
                         server_url |-> ret'.args[1], token |-> ret'.args[2],
                         auth_mode |-> ret'.args[3],
                         dashboard |-> NormalizeDashboard(ret'.args[4])]
       /\ ret'.op = "set_proxy_running"
            => proxy' = [proxy EXCEPT !.running = ret'.args[1]]
       /\ ret'.op = "start_proxy_server"
            => proxy' = IF ret'.val
                        THEN [proxy EXCEPT !.running = TRUE, !.port = ret'.args[1]]
                        ELSE proxy]_vars

\* update_proxy_state on a running proxy that listens on a port of its own
C12_Witness ==
    /\ ret.op = "update_proxy_state"
    /\ proxy.running
    /\ proxy.port # DefaultPort
    /\ proxy.token # <<>>
    /\ proxy.dashboard # <<>>

----------------------------------------------------------------------------
(* Properties of the request pipeline, checked under SpecPipe               *)

\* a path that the proxy answers itself
Reserved(path) ==
    \/ StartsWith(path, S_desktop_prefix)
    \/ path = S_bridge
    \/ StartsWith(path, S_admin_prefix)
    \/ path = S_admin
    \/ path = S_slash

\* the Set-Cookie lines of a response, in order
SetCookieLines(response) == HeaderValues(response.headers, "set-cookie")

C17_Unconfigured ==
    [][(/\ ret'.op = "handle_request"
        /\ ~Reserved(ret'.args[1].path)
        /\ proxy.server_url = <<>>)
       => (/\ ret'.val.response.status = 502
           /\ ret'.val.response.headers = <<>>
           /\ ~ret'.val.upstream.some
           /\ ~ret'.val.body_read
           /\ jar' = jar
           /\ file' = file
           /\ ~ret'.wrote)]_vars

\* a POST with a body and a Cookie header found server_url empty while the jar
\* held an expired entry, which is still there
C17_Witness ==
    /\ ret.op = "handle_request"
    /\ ~Reserved(ret.args[1].path)
    /\ ret.args[1].body = "bytes"
    /\ ret.args[2].send_ok
    /\ proxy.server_url = <<>>
    /\ ret.val.response.status = 502
    /\ \E i \in 1..Len(jar) : ~Unexpired(jar[i], now)

\* a Set-Cookie that store_cookie keeps and hands to the browser
Forwardable(sc) == WellFormed(sc) /\ ~IsDeleting(sc) /\ ~MarkedSecure(sc)

\* the sanitized form of a Set-Cookie: name=value, the attributes that are not
\* stripped, SameSite=Lax in place of SameSite=None
SanitizedOf(sc) ==
    Join(<<GivenName(sc) \o <<"=">> \o GivenValue(sc)>>
            \o SelectSeq(GivenAttrs(sc), LAMBDA a : ~Stripped(a))
            \o (IF HasAttr(sc, S_samesite_none) THEN <<S_SameSiteLax>> ELSE <<>>),
         S_semi_sp)

\* the request met an upstream that answered
Answered(r) == r.op = "handle_request" /\ r.val.upstream.some /\ r.args[2].send_ok

\* the text Set-Cookie values of the upstream response, in header order
UpstreamSetCookies(r) ==
    LET kept == SelectSeq(HeaderValues(r.args[2].headers, "set-cookie"), LAMBDA v : v.text)
    IN  [i \in 1..Len(kept) |-> kept[i].val]

\* C18 as stated: for every upstream response, the downstream Set-Cookie lines
\* are, in order, the sanitized forms of the Set-Cookie headers that were
\* stored and are not secure-only: one line for each of them, none for a
\* secure-only header, and no line that is not a sanitized form.
C18_Interception ==
    Answered(ret) =>
        LET kept == SelectSeq(UpstreamSetCookies(ret), Forwardable)
        IN  SetCookieLines(ret.val.response)
                = [i \in 1..Len(kept) |-> Text(SanitizedOf(kept[i]))]

RECURSIVE StoredInOrder(_, _, _, _)
\* the jar after store_cookie of each Set-Cookie value, in order
StoredInOrder(j, scs, i, t) ==
    Bind(j, LAMBDA jj :
        IF i > Len(scs) THEN jj
        ELSE StoredInOrder(StoreCookie(scs[i], jj, t).jar, scs, i + 1, t))

\* C19 as stated: when the upstream answered, the jar is the purged jar with
\* the Set-Cookie headers applied in header order, and whatever the response
\* of the request is, each Set-Cookie header that was stored and is not
\* secure-only has its sanitized form among the Set-Cookie lines of that
\* response.
C19_Consistent ==
    [][Answered(ret') =>
        /\ jar' = StoredInOrder(PurgeExpired(jar, now), UpstreamSetCookies(ret'), 1, now)
        /\ \A i \in 1..Len(UpstreamSetCookies(ret')) :
              Forwardable(UpstreamSetCookies(ret')[i]) =>
                  \E k \in 1..Len(SetCookieLines(ret'.val.response)) :
                      SetCookieLines(ret'.val.response)[k]
                          = Text(SanitizedOf(UpstreamSetCookies(ret')[i]))]_vars

\* the Authorization values of the request given to the upstream
UpstreamAuthorization(r) == HeaderValues(r.val.upstream.headers, "authorization")

\* the text Authorization values the client sent
ClientAuthorization(r) ==
    LET kept == SelectSeq(HeaderValues(r.args[1].headers, "authorization"), LAMBDA v : v.text)
    IN  [i \in 1..Len(kept) |-> kept[i].val]

\* C20 as stated: with a token in the proxy state the upstream request carries
\* exactly one Authorization header, Bearer and the token, whatever the client
\* sent; without a token it carries the Authorization header of the client.
C20_Authorization ==
    (ret.op = "handle_request" /\ ret.val.upstream.some) =>
        UpstreamAuthorization(ret) = IF proxy.token # <<>>
                                     THEN <<S_bearer \o proxy.token>>
                                     ELSE ClientAuthorization(ret)

----------------------------------------------------------------------------
(* Properties of the threads, checked under SpecConc                        *)

RECURSIVE StateAfter(_, _)
\* the proxy state after the writes of a history, one after the other
StateAfter(p, events) ==
    Bind(p, LAMBDA q :
        IF events = <<>> THEN q
        ELSE LET e == Head(events)
             IN  StateAfter(CASE e.kind = "update_proxy_state" ->
                                    UpdateProxyState(q, e.arg[1], e.arg[2], e.arg[3], e.arg[4])
                              [] e.kind = "set_proxy_running" -> SetProxyRunning(q, e.arg)
                              [] OTHER -> q,
                            Tail(events)))

RECURSIVE JarAfter(_, _)
\* the jar after the writes of a history, one after the other
JarAfter(j, events) ==
    Bind(j, LAMBDA jj :
        IF events = <<>> THEN jj
        ELSE LET e == Head(events)
             IN  JarAfter(CASE e.kind = "stored" -> Upsert(jj, e.arg)
                            [] e.kind = "removed" -> RemoveCookie(jj, e.arg)
                            [] e.kind = "purged" -> PurgeExpired(jj, e.arg)
                            [] OTHER -> jj,
                          Tail(events)))

\* the proxy state when the threads start
ConcState == StartProxyServer(ProxyDefault, DefaultPort)

\* the thread has its copy of the proxy state
HasSnapshot(t) ==
    /\ thread[t].op \in {"get_proxy_state", "proxy_request"}
    /\ thread[t].pc \notin {"g_lock", "g_clone"}

\* the four written fields of a state are those of one update_proxy_state, or
\* those the state started with
FromOneUpdate(p) ==
    \/ /\ p.server_url = ConcState.server_url
       /\ p.token = ConcState.token
       /\ p.auth_mode = ConcState.auth_mode
       /\ p.dashboard = ConcState.dashboard
    \/ \E i \in 1..Len(hist) :
          /\ hist[i].kind = "update_proxy_state"
          /\ p.server_url = hist[i].arg[1]
          /\ p.token = hist[i].arg[2]
          /\ p.auth_mode = hist[i].arg[3]
          /\ p.dashboard = NormalizeDashboard(hist[i].arg[4])

\* C13: whatever the interleaving with update_proxy_state and
\* set_proxy_running, the copy that get_proxy_state returns is the proxy state
\* as it was at one point between the call and its return, after some of the
\* writes and before the others; its server_url, token, auth_mode and dashboard
\* come from one update; and a proxied request takes its target URL, its
\* Authorization header and its local base from one such copy.
C13_NoTornState ==
    \A t \in Threads :
        HasSnapshot(t) =>
            /\ \E k \in thread[t].from..Len(hist) :
                  thread[t].snap = StateAfter(ConcState, SubSeq(hist, 1, k))
            /\ FromOneUpdate(thread[t].snap)
            /\ (thread[t].op = "get_proxy_state") => thread[t].val = thread[t].snap
            /\ (thread[t].op = "proxy_request" /\ At(t, "done")) =>
                  /\ thread[t].val.target_url
                        = TrimEndMatches(thread[t].snap.server_url, "/") \o thread[t].arg
                  /\ thread[t].val.authorization
                        = IF thread[t].snap.token # <<>>
                          THEN SomeStr(S_bearer \o thread[t].snap.token) ELSE NoneStr
                  /\ thread[t].val.local_base = S_local_host \o Decimal(thread[t].snap.port)

\* a request that began before any write used the state of an update that
\* another thread made meanwhile
C13_Witness ==
    \E t \in Threads :
        /\ thread[t].op = "proxy_request"
        /\ At(t, "done")
        /\ thread[t].from = 0
        /\ thread[t].snap.server_url = <<"h", "/">>
        /\ thread[t].val.authorization = SomeStr(S_bearer \o <<"t">>)
        /\ thread[t].val.target_url = <<"h">> \o S_api

\* the writes of a thread in the history
EventsOf(t) == {i \in 1..Len(hist) : hist[i].thread = t}

\* the thread is in store_cookie, past its write to the jar
HasStored(t) ==
    /\ thread[t].op = "store_cookie"
    /\ thread[t].pc \in {"w_unlock", "s_lock", "s_serialize", "s_write", "s_unlock",
                       "return", "done"}
    /\ Parsed(thread[t].arg, now).kind # "ignored"

\* a Cookie header is the pairs of a map, in one of the orders of the map
FormatsOf(m) == {FormatPairs([i \in 1..Len(m) |-> m[o[i]]]) : o \in Orders(Len(m))}

\* C14: the jar is at every moment that no writer is in it the jar of the
\* writes so far applied one after the other in the order of the history;
\* every store_cookie that has written is in that order once, and the upsert it
\* made is in the jar until a later write replaces or removes it; every
\* get_merged_cookies result is the merge over the jar as it was at one point of
\* that order between the call and its return.
C14_Linearizable ==
    /\ lock.jar.writer = 0 => jar = JarAfter(ConcJar, hist)
    /\ \A t \in Threads :
          HasStored(t) =>
              /\ Cardinality(EventsOf(t)) = 1
              /\ \A i \in EventsOf(t) :
                    (/\ hist[i].kind = "stored"
                     /\ lock.jar.writer = 0
                     /\ \A k \in (i + 1)..Len(hist) :
                           hist[k].kind \notin {"stored", "removed"})
                    => \E n \in 1..Len(jar) : jar[n] = hist[i].arg
    /\ \A t \in Threads :
          (thread[t].op = "get_merged_cookies" /\ At(t, "done")) =>
              \E k \in thread[t].from..Len(hist) :
                  /\ \E i \in 1..k : hist[i] = Event(t, "purged", now)
                  /\ thread[t].val \in FormatsOf(MergedMap(thread[t].arg[1], thread[t].arg[2],
                                                         JarAfter(ConcJar, SubSeq(hist, 1, k))))

\* two upserts of different names ran at once and both are in the jar
C14_Witness ==
    /\ \A t \in Threads : thread[t].op = "store_cookie" /\ At(t, "done")
    /\ Len(hist) = 2
    /\ hist[1].kind = "stored"
    /\ hist[2].kind = "stored"
    /\ hist[1].arg.name # hist[2].arg.name
    /\ \E t \in Threads : thread[t].from = 0 /\ hist[2].thread = t
    /\ \E n \in 1..Len(jar) : jar[n] = hist[1].arg
    /\ \E n \in 1..Len(jar) : jar[n] = hist[2].arg

\* C15 as stated: a thread that writes the persistence file holds neither
\* lock, as reader or as writer, and no thread waits for the jar's write lock
\* while another writes the file.
C15_NoIoUnderLock ==
    \A t \in Threads :
        At(t, "s_write") =>
            /\ t \notin lock.jar.readers
            /\ t \notin lock.state.readers
            /\ lock.jar.writer # t
            /\ lock.state.writer # t
            /\ \A u \in Threads : At(u, "w_lock") => CanWrite(lock.jar)

----------------------------------------------------------------------------
(* Properties of the relayed response, checked under SpecPipe               *)

\* the upstream response of the call reached the client: it was streamed, or
\* its body was read to the end
Relayed(r) ==
    /\ Answered(r)
    /\ (IsSse(r.args[2].headers) \/ r.args[2].body_ok)

\* server_url without its trailing slash
UpstreamBase(p) ==
    IF p.server_url # <<>> /\ p.server_url[Len(p.server_url)] = "/"
    THEN SubSeq(p.server_url, 1, Len(p.server_url) - 1)
    ELSE p.server_url

\* the Location value the client is to see for one of the upstream
LocationFor(value, status, p) ==
    IF /\ 300 <= status /\ status <= 399
       /\ value.text
       /\ Len(value.val) >= Len(UpstreamBase(p))
       /\ SubSeq(value.val, 1, Len(UpstreamBase(p))) = UpstreamBase(p)
    THEN Text(S_local_host \o Decimal(p.port)
                \o SubSeq(value.val, Len(UpstreamBase(p)) + 1, Len(value.val)))
    ELSE value

\* the Location values of the response of the call, as the claim wants them
LocationsWanted(r, p) ==
    LET given == HeaderValues(r.args[2].headers, "location")
    IN  [i \in 1..Len(given) |-> LocationFor(given[i], r.args[2].status, p)]

HeaderNames(response) == [i \in 1..Len(response.headers) |-> response.headers[i][1]]

\* C22 as stated: whenever the Content-Type of the upstream response contains
\* text/event-stream, whatever other headers the upstream sent, the downstream
\* response has no Content-Length header, carries Cache-Control: no-cache and
\* X-Accel-Buffering: no, and its body is a stream of the chunks of the
\* upstream, not a buffer.
C22_SsePassthrough ==
    (Answered(ret) /\ IsSse(ret.args[2].headers)) =>
        /\ "content-length" \notin Range(HeaderNames(ret.val.response))
        /\ Text(S_no_cache) \in Range(HeaderValues(ret.val.response.headers, "cache-control"))
        /\ Text(S_no) \in Range(HeaderValues(ret.val.response.headers, "x-accel-buffering"))
        /\ ret.val.response.body = "stream"

\* C28 as stated: for every upstream response that is not SSE and whose body is
\* read, the downstream response carries exactly one Content-Length header,
\* whose value is the length of the buffered body, and no Transfer-Encoding or
\* Connection header.
C28_OneContentLength ==
    (Answered(ret) /\ ~IsSse(ret.args[2].headers) /\ ret.args[2].body_ok) =>
        /\ HeaderValues(ret.val.response.headers, "content-length")
              = <<Text(Decimal(ret.args[2].body_len))>>
        /\ "transfer-encoding" \notin Range(HeaderNames(ret.val.response))
        /\ "connection" \notin Range(HeaderNames(ret.val.response))

\* the Set-Cookie values of a list that name the cookie, in order
Named(scs, name) == SelectSeq(scs, LAMBDA sc : WellFormed(sc) /\ GivenName(sc) = name)

\* the names that several Set-Cookie values of a list give
RepeatedNames(scs) ==
    {name \in {GivenName(scs[i]) : i \in {k \in 1..Len(scs) : WellFormed(scs[k])}} :
        Len(Named(scs, name)) >= 2}

\* C27 as stated: when an upstream response carries several Set-Cookie headers
\* of one name, after the response the jar holds for that name what the last of
\* them says (one entry with its value, path and expiry, or none when it
\* deletes), and the downstream response has, in header order, one Set-Cookie
\* line for each of them that is not secure-only.
C27_SameName ==
    Answered(ret) =>
        \A name \in RepeatedNames(UpstreamSetCookies(ret)) :
            LET same == Named(UpstreamSetCookies(ret), name)
                last == same[Len(same)]
                kept == SelectSeq(same, Forwardable)
                lines == SelectSeq(SetCookieLines(ret.val.response),
                                   LAMBDA v : v.text /\ StartsWith(v.val, name \o <<"=">>))
                held == {i \in 1..Len(jar) : jar[i].name = name}
            IN  /\ IF IsDeleting(last) THEN held = {}
                   ELSE /\ Cardinality(held) = 1
                        /\ \A i \in held :
                              /\ jar[i].value = GivenValue(last)
                              /\ jar[i].path = GivenPath(last)
                              /\ jar[i].expires_at = GivenExpiry(last, now)
                /\ lines = [i \in 1..Len(kept) |-> Text(SanitizedOf(kept[i]))]

----------------------------------------------------------------------------
(* Properties of the expiry of jar entries, checked under Spec              *)

\* the Max-Age attributes of a Set-Cookie that carry an integer n > 0
PositiveMaxAges(sc) ==
    {i \in 1..Len(GivenAttrs(sc)) :
        MaxAgeOf(GivenAttrs(sc)[i]).ok /\ MaxAgeOf(GivenAttrs(sc)[i]).val > 0}

\* the result of a read of the jar for a request, as <<name, value>> pairs
ReadPairs(r) == HeaderPairs(r.val)

\* the names the browser gave to the read
BrowserNames(r) ==
    IF r.op = "get_merged_cookies" THEN PairNames(HeaderPairs(r.args[1])) ELSE {}

\* the request path of the read
ReadPath(r) == IF r.op = "get_merged_cookies" THEN r.args[2] ELSE r.args[1]

\* C30: a store_cookie at time t with Max-Age=n, n > 0, leaves the entry of
\* that name with expires_at = t + n, and one without a Max-Age leaves it with
\* expires_at = 0, whatever expiry the name had before. An entry with
\* expires_at > 0 whose path matches is in the result of get_merged_cookies and
\* get_cookies_header at every time before expires_at, and at every time from
\* expires_at on it gives nothing to the result and is gone from the jar. An
\* entry with expires_at = 0 stays in the jar through every purge.
C30_ExpiryTiming ==
    [][/\ (ret'.op = "store_cookie" /\ WellFormed(ret'.args[1]) /\ ~IsDeleting(ret'.args[1]))
            => \E i \in 1..Len(jar') :
                  /\ jar'[i].name = GivenName(ret'.args[1])
                  /\ jar'[i].expires_at
                        = IF PositiveMaxAges(ret'.args[1]) = {} THEN 0
                          ELSE now + MaxAgeOf(GivenAttrs(ret'.args[1])
                                                [Last(PositiveMaxAges(ret'.args[1]))]).val
       /\ ret'.op \in {"get_merged_cookies", "get_cookies_header"}
            => \A i \in 1..Len(jar) :
                  /\ (jar[i].expires_at > now /\ StartsWith(ReadPath(ret'), jar[i].path))
                        => <<jar[i].name, jar[i].value>> \in Range(ReadPairs(ret'))
                  /\ (jar[i].expires_at > 0 /\ jar[i].expires_at <= now)
                        => /\ jar[i].name \in PairNames(ReadPairs(ret'))
                                => jar[i].name \in BrowserNames(ret')
                           /\ jar[i].name \notin JarNames(jar')
                  /\ jar[i].expires_at = 0 => jar[i] \in Range(jar')
       /\ \A i \in 1..Len(jar) :
             jar[i].expires_at = 0 => jar[i] \in Range(PurgeExpired(jar, now'))]_vars

\* a cookie stored at time 0 with Max-Age=2 is in the result of a read at time 1
C30_Witness ==
    /\ ret.op = "get_cookies_header"
    /\ now = 1
    /\ \E i \in 1..Len(jar) :
          /\ jar[i].expires_at = 2
          /\ <<jar[i].name, jar[i].value>> \in Range(ReadPairs(ret))

----------------------------------------------------------------------------
(* Properties of the listener, checked under SpecListen                     *)

\* C25 as stated: a start_proxy_server whose bind fails returns an error and
\* leaves running and port as they were; one whose bind succeeds leaves running
\* true and port equal to the port the listener is bound to; running becomes
\* true, or port changes while running, only by such a bind, so that running =
\* true implies a bind has succeeded on the recorded port; and running goes
\* from true to false only when a serve loop ends with an error.
C25_ListenerStart ==
    [][/\ (ret'.op = "start_proxy_server" /\ ~ret'.val)
            => (proxy'.running = proxy.running /\ proxy'.port = proxy.port)
       /\ (ret'.op = "start_proxy_server" /\ ret'.val)
            => (proxy'.running /\ listeners' \ listeners = {proxy'.port})
       /\ (proxy'.running /\ (~proxy.running \/ proxy'.port # proxy.port))
            => (/\ ret'.op = "start_proxy_server"
                /\ ret'.val
                /\ proxy'.port \in listeners' \ listeners)
       /\ (proxy.running /\ ~proxy'.running)
            => (ret'.op = "serve" /\ ret'.val = "error")]_vars

----------------------------------------------------------------------------
(* Properties of the host app handle, checked under SpecShell               *)

\* C26: the first set_app_handle registers its handle, every later call leaves
\* the registered handle as it is, and no step unsets or changes a registered
\* handle; a request for /__yao_desktop/window/fullscreen is answered 503
\* exactly when no handle is registered yet, that is before the first
\* set_app_handle, and never afterwards.
C26_WriteOnce ==
    [][/\ ret'.op = "set_app_handle"
            => app_handle' = IF app_handle.some THEN app_handle
                             ELSE [some |-> TRUE, val |-> ret'.args[1]]
       /\ app_handle.some => app_handle' = app_handle
       /\ (~app_handle.some /\ app_handle'.some) => ret'.op = "set_app_handle"
       /\ (ret'.op = "handle_request" /\ ret'.args[1].path = S_fullscreen)
            => (ret'.val.response.status = 503 <=> ~app_handle.some)]_vars

\* a second set_app_handle, with another handle, left the first one registered
C26_Witness ==
    /\ ret.op = "set_app_handle"
    /\ app_handle.some
    /\ app_handle.val # ret.args[1]

----------------------------------------------------------------------------
(* Properties of the static server, checked under SpecStatic                *)

\* a call of serve_cui_static on a file system
Static(r) == r.op = "serve_cui_static"

\* the part of the requested path after /__yao_admin_root/
RelativePart(r) == Skip(r.args[1], Len(S_admin_prefix))

\* the canonical path of what the request names in the bundle, when it resolves
Requested(r) ==
    Canonicalize(r.args[3],
                 PathJoin(r.args[2], IF RelativePart(r) = <<>> THEN S_index
                                     ELSE RelativePart(r)))

\* the canonical bundle root
CanonicalRoot(r) ==
    IF Canonicalize(r.args[3], r.args[2]).ok THEN Canonicalize(r.args[3], r.args[2]).path
    ELSE r.args[2]

\* D/index.html exists
HasIndex(r) == Exists(r.args[3], r.args[2] \o <<S_index>>)

\* C23 as stated: serve_cui_static never returns the contents of a file whose
\* canonical path is outside of the canonical bundle root, and whenever the
\* path of the request resolves to a canonical path outside of the canonical
\* bundle root the response is 403 and no file is read.
C23_TraversalGuard ==
    Static(ret) =>
        /\ ret.val.read.ok => PathStartsWith(ret.val.read.path, CanonicalRoot(ret))
        /\ (Requested(ret).ok /\ ~PathStartsWith(Requested(ret).path, CanonicalRoot(ret)))
              => (ret.val.response.status = 403 /\ ~ret.val.read.ok)

RECURSIVE Depths(_, _)
\* how deep under the bundle root each component of a relative path leads
Depths(parts, depth) ==
    IF parts = <<>> THEN <<>>
    ELSE LET d == IF Head(parts) = S_dotdot THEN depth - 1 ELSE depth + 1
         IN  <<d>> \o Depths(Tail(parts), d)

\* the .. segments of the relative part lead out of the bundle root
Escaping(r) ==
    /\ RelativePart(r) # <<>>
    /\ RelativePart(r)[1] # "/"
    /\ \E i \in 1..Len(Components(RelativePart(r))) :
          Depths(Components(RelativePart(r)), 0)[i] < 0

\* C24 as stated: with a bundle root that exists, every request under
\* /__yao_admin_root/ whose relative part has .. segments that lead out of the
\* bundle root is answered 403, whether what they lead to exists on the disk
\* or not.
C24_EscapeForbidden ==
    (Static(ret) /\ Escaping(ret) /\ Exists(ret.args[3], ret.args[2]))
        => ret.val.response.status = 403

\* C29 as stated: for every bundle root, in canonical form or not, a request
\* whose relative path does not resolve, or resolves to a directory inside the
\* bundle root, is answered 200 with the contents of D/index.html when
\* D/index.html exists and the file can be read, and with the 404 page when
\* D/index.html is absent.
C29_SpaFallback ==
    (/\ Static(ret)
     /\ \/ ~Requested(ret).ok
        \/ /\ IsDirNode(ret.args[3], Requested(ret).path)
           /\ PathStartsWith(Requested(ret).path, CanonicalRoot(ret)))
        => IF HasIndex(ret)
           THEN ret.args[4]
                   => /\ ret.val.response.status = 200
                      /\ ret.val.read
                            = Canonicalize(ret.args[3], ret.args[2] \o <<S_index>>)
           ELSE ret.val.response.status = 404

----------------------------------------------------------------------------
(* The legacy reader get_cookies_header, checked under Spec                 *)

NamesOf(j) == [i \in 1..Len(j) |-> j[i].name]

\* the entries get_cookies_header(request_path) has to report, in jar order
Reported(j, request_path, t) ==
    SelectSeq(j, LAMBDA c : Unexpired(c, t) /\ StartsWith(request_path, c.path))

\* C31: get_cookies_header(p) returns exactly the name=value pairs that
\* get_merged_cookies("", p) returns for the same jar, serialized in the order
\* of the jar, and the order of the jar is the insertion order: a store_cookie
\* of a name the jar holds leaves every name at its position, a deletion takes
\* the name out and leaves the others in order, and a store_cookie of a name
\* the jar does not hold (never stored, or deleted since) puts it at the end.
C31_JarOnlyReader ==
    [][/\ ret'.op = "get_cookies_header" =>
            LET p == ret'.args[1]
                res == HeaderPairs(ret'.val)
                due == Reported(jar, p, now)
            IN  /\ \A merged \in FormatsOf(MergedMap(<<>>, p, PurgeExpired(jar, now))) :
                       Range(res) = Range(HeaderPairs(merged))
                /\ res = [i \in 1..Len(due) |-> <<due[i].name, due[i].value>>]
       /\ (ret'.op = "store_cookie" /\ WellFormed(ret'.args[1])) =>
            LET x == GivenName(ret'.args[1])
            IN  NamesOf(jar') =
                    IF IsDeleting(ret'.args[1])
                    THEN SelectSeq(NamesOf(jar), LAMBDA n : n # x)
                    ELSE IF x \in JarNames(jar) THEN NamesOf(jar)
                    ELSE Append(NamesOf(jar), x)]_vars

\* get_cookies_header("/") returned "__locale=1; a=2": two entries in the
\* order of the jar, a stored after __locale
C31_Witness ==
    /\ ret.op = "get_cookies_header"
    /\ ret.args[1] = S_slash
    /\ Len(jar) = 2
    /\ jar[1].name = S_locale
    /\ jar[2].name = <<"a">>
    /\ ret.val = S_locale \o <<"=", "1", ";", " ", "a", "=", "2">>

----------------------------------------------------------------------------
(* The round trip through the cookie file, checked under Spec               *)

\* the entries a cookie file holds, in the order of the file
Stored(f) ==
    [i \in 1..Len(f.data) |->
        [name |-> f.data[i][1], value |-> f.data[i][2], path |-> f.data[i][3],
         expires_at |-> f.data[i][4], http_only |-> f.data[i][5]]]

\* the entries of j that have not expired at time t, in the order of j
Live(j, t) == SelectSeq(j, LAMBDA c : c.expires_at = 0 \/ c.expires_at > t)

\* C32: load round trip. A completed save leaves a file that holds exactly the
\* entries of the jar, in order. With a persistence path set and such a file,
\* load_cookies replaces the jar in memory by the entries of the file minus
\* those expired at load time, with the same names, values, paths, expiries and
\* http_only flags in the same order, and keeps nothing of the jar it replaces;
\* with no path, or a file that is absent, unreadable or not a JSON array of
\* entries, it leaves the jar as it was apart from the purge of expired entries.
C32_LoadRoundTrip ==
    [][/\ ret'.wrote => (file'.kind = "json" /\ Stored(file') = jar')
       /\ ret'.op = "load_cookies" =>
            jar' = IF cookie_file /\ file.kind = "json"
                   THEN Live(Stored(file), now)
                   ELSE Live(jar, now)]_vars

\* load_cookies on a file a save of this run wrote, holding a=1 that expired
\* since and __locale=1: the jar is left with __locale alone
C32_Witness ==
    /\ ret.op = "load_cookies"
    /\ cookie_file
    /\ file.kind = "json"
    /\ Len(file.data) = 2
    /\ file.data[1][1] = <<"a">>
    /\ file.data[1][2] = <<"1">>
    /\ file.data[1][4] = 1
    /\ now = 1
    /\ Len(jar) = 1
    /\ jar[1].name = S_locale

----------------------------------------------------------------------------
(* Max-Age values that are not integers, checked under SpecParse            *)

\* a Max-Age attribute whose value is not a signed integer
BadMaxAge(attr) == StartsWith(ToLower(attr), S_max_age_eq) /\ ~MaxAgeOf(attr).ok

HasBadMaxAge(sc) == \E i \in 1..Len(GivenAttrs(sc)) : BadMaxAge(GivenAttrs(sc)[i])

----------------------------------------------------------------------------
(* Content-Type and Cache-Control of the static server, checked under       *)
(* SpecStatic                                                               *)

\* the MIME map: extension, Content-Type
MimeMap ==
    {<<<<"h", "t", "m", "l">>,
       <<"t", "e", "x", "t", "/", "h", "t", "m", "l", ";", " ", "c", "h", "a", "r", "s", "e", "t", "=", "u", "t", "f", "-", "8">>>>,
     <<<<"j", "s">>,
       <<"a", "p", "p", "l", "i", "c", "a", "t", "i", "o", "n", "/", "j", "a", "v", "a", "s", "c", "r", "i", "p", "t", ";", " ", "c", "h", "a", "r", "s", "e", "t", "=", "u", "t", "f", "-", "8">>>>,
     <<<<"m", "j", "s">>,
       <<"a", "p", "p", "l", "i", "c", "a", "t", "i", "o", "n", "/", "j", "a", "v", "a", "s", "c", "r", "i", "p", "t", ";", " ", "c", "h", "a", "r", "s", "e", "t", "=", "u", "t", "f", "-", "8">>>>,
     <<<<"c", "s", "s">>,
       <<"t", "e", "x", "t", "/", "c", "s", "s", ";", " ", "c", "h", "a", "r", "s", "e", "t", "=", "u", "t", "f", "-", "8">>>>,
     <<<<"j", "s", "o", "n">>,
       <<"a", "p", "p", "l", "i", "c", "a", "t", "i", "o", "n", "/", "j", "s", "o", "n", ";", " ", "c", "h", "a", "r", "s", "e", "t", "=", "u", "t", "f", "-", "8">>>>,
     <<<<"m", "a", "p">>,
       <<"a", "p", "p", "l", "i", "c", "a", "t", "i", "o", "n", "/", "j", "s", "o", "n", ";", " ", "c", "h", "a", "r", "s", "e", "t", "=", "u", "t", "f", "-", "8">>>>,
     <<<<"p", "n", "g">>,
       <<"i", "m", "a", "g", "e", "/", "p", "n", "g">>>>,
     <<<<"j", "p", "g">>,
       <<"i", "m", "a", "g", "e", "/", "j", "p", "e", "g">>>>,
     <<<<"j", "p", "e", "g">>,
       <<"i", "m", "a", "g", "e", "/", "j", "p", "e", "g">>>>,
     <<<<"g", "i", "f">>,
       <<"i", "m", "a", "g", "e", "/", "g", "i", "f">>>>,
     <<<<"s", "v", "g">>,
       <<"i", "m", "a", "g", "e", "/", "s", "v", "g", "+", "x", "m", "l">>>>,
     <<<<"i", "c", "o">>,
       <<"i", "m", "a", "g", "e", "/", "x", "-", "i", "c", "o", "n">>>>,
     <<<<"w", "o", "f", "f">>,
       <<"f", "o", "n", "t", "/", "w", "o", "f", "f">>>>,
     <<<<"w", "o", "f", "f", "2">>,
       <<"f", "o", "n", "t", "/", "w", "o", "f", "f", "2">>>>,
     <<<<"t", "t", "f">>,
       <<"f", "o", "n", "t", "/", "t", "t", "f">>>>,
     <<<<"e", "o", "t">>,
       <<"a", "p", "p", "l", "i", "c", "a", "t", "i", "o", "n", "/", "v", "n", "d", ".", "m", "s", "-", "f", "o", "n", "t", "o", "b", "j", "e", "c", "t">>>>,
     <<<<"w", "a", "s", "m">>,
       <<"a", "p", "p", "l", "i", "c", "a", "t", "i", "o", "n", "/", "w", "a", "s", "m">>>>,
     <<<<"t", "x", "t">>,
       <<"t", "e", "x", "t", "/", "p", "l", "a", "i", "n", ";", " ", "c", "h", "a", "r", "s", "e", "t", "=", "u", "t", "f", "-", "8">>>>,
     <<<<"x", "m", "l">>,
       <<"a", "p", "p", "l", "i", "c", "a", "t", "i", "o", "n", "/", "x", "m", "l", ";", " ", "c", "h", "a", "r", "s", "e", "t", "=", "u", "t", "f", "-", "8">>>>}

\* the Content-Type the MIME map gives a file name
MimeOf(name) ==
    LET dots == {i \in 2..Len(name) : name[i] = "."}
        ext == IF dots = {} THEN <<>> ELSE Skip(name, Last(dots))
    IN  IF dots # {} /\ \E row \in MimeMap : row[1] = ext
        THEN (CHOOSE row \in MimeMap : row[1] = ext)[2]
        ELSE <<"a", "p", "p", "l", "i", "c", "a", "t", "i", "o", "n", "/", "o", "c", "t", "e", "t", "-", "s", "t", "r", "e", "a", "m">>

\* the name of the file a request is answered with: the file it names in the
\* bundle, index.html when it names no file
ServedName(r) ==
    IF Requested(r).ok /\ IsFile(r.args[3], Requested(r).path)
    THEN Requested(r).path[Len(Requested(r).path)]
    ELSE S_index

\* C34: every response of the static server that carries a file has one
\* Content-Type, the one the MIME map gives the extension of the file served
\* (application/json; charset=utf-8 for json and for map,
\* application/octet-stream for an extension the map does not have and for a
\* name without one), and one Cache-Control: no-cache when the Content-Type is
\* text/html, public, max-age=3600 otherwise.
C34_MimeTable ==
    (Static(ret) /\ ret.val.response.status = 200) =>
        LET hs == ret.val.response.headers
            types == {i \in 1..Len(hs) : hs[i][1] = "content-type"}
            caches == {i \in 1..Len(hs) : hs[i][1] = "cache-control"}
        IN  /\ Cardinality(types) = 1
            /\ Cardinality(caches) = 1
            /\ \A i \in types : hs[i][2] = Text(MimeOf(ServedName(ret)))
            /\ \A i \in caches :
                   hs[i][2] = Text(IF StartsWith(MimeOf(ServedName(ret)), <<"t", "e", "x", "t", "/", "h", "t", "m", "l">>)
                                   THEN <<"n", "o", "-", "c", "a", "c", "h", "e">>
                                   ELSE <<"p", "u", "b", "l", "i", "c", ",", " ", "m", "a", "x", "-", "a", "g", "e", "=", "3", "6", "0", "0">>)

----------------------------------------------------------------------------
(* Secure-only cookies and the static server, checked under SpecStatic      *)

\* the Set-Cookie lines of a response, as text
SetCookieTexts(response) ==
    {response.headers[i][2].val :
        i \in {k \in 1..Len(response.headers) : response.headers[k][1] = "set-cookie"}}

\* C35: the value of a cookie that store_cookie classified as secure-only is
\* never sent to the browser. Stated for the request that follows the
\* store_cookie of a proxied response: when store_cookie returned is_secure =
\* true for name=value, the next response of the static server has no
\* Set-Cookie line for name=value and its injected script is not formatted
\* with the value.
C35_SecureWithheld ==
    [][(/\ ret.op = "store_cookie"
        /\ ret.val.is_secure
        /\ Static(ret'))
       => (/\ \A line \in SetCookieTexts(ret'.val.response) :
                 ~(GivenName(line) = GivenName(ret.args[1])
                   /\ GivenValue(line) = GivenValue(ret.args[1]))
           /\ ret'.val.script.some => ret'.val.script.theme # GivenValue(ret.args[1]))]_vars

----------------------------------------------------------------------------
(* The browser specification: one browser talks to the proxy. It keeps the  *)
(* cookies the responses give it and sends all of them with every request   *)

\* what the browser holds after a Set-Cookie line: a Max-Age <= 0 drops the
\* cookie of that name, any other line with a name sets it
BrowserSetCookie(held, line) ==
    IF ~WellFormed(line) THEN held
    ELSE IF IsDeleting(line)
    THEN SelectSeq(held, LAMBDA nv : nv[1] # GivenName(line))
    ELSE MapInsert(held, GivenName(line), GivenValue(line))

RECURSIVE BrowserStore(_, _, _)
\* what the browser holds after the headers of a response, from the i-th on
BrowserStore(held, headers, i) ==
    IF i > Len(headers) THEN held
    ELSE BrowserStore(IF headers[i][1] = "set-cookie" /\ headers[i][2].text
                      THEN BrowserSetCookie(held, headers[i][2].val)
                      ELSE held,
                      headers, i + 1)

\* the request the browser sends to /api
BrowserReq(held) ==
    Req("GET", S_api, NoneStr,
        IF held = <<>> THEN <<>> ELSE << <<"cookie", Text(FormatPairs(held))>> >>,
        "empty")

SC_locale_delete == <<"_", "_", "l", "o", "c", "a", "l", "e", "=", ";", " ", "M", "a", "x", "-", "A", "g", "e", "=", "0">>

\* the upstream sets a, sets it as a secure cookie, deletes it, does the same
\* with __locale, or sets nothing
BrowserWorlds ==
    {Upstream(TRUE, 200, <<>>, TRUE, 0)}
        \cup {Upstream(TRUE, 200, << <<"set-cookie", Text(sc)>> >>, TRUE, 0) :
                 sc \in {SC_plain, SC_flag, SC_delete, SC_locale, SC_locale_delete}}

\* handle_request on a request of the browser, and the browser's handling of
\* the response
BrowserRequest(up) ==
    \E req \in {BrowserReq(browser_cookies)} :
    \E o \in HandleRequestOutcomes(req, up, proxy, jar, file, cookie_file, now) :
        /\ jar' = o.jar
        /\ file' = o.file
        /\ browser_cookies' = BrowserStore(browser_cookies, o.response.headers, 1)
        /\ ret' = Call("handle_request", <<req, up>>, o, o.wrote)
        /\ UNCHANGED <<cookie_file, now, proxy, thread, lock, hist, listeners, app_handle>>

InitBrowser ==
    /\ jar = <<>>
    /\ file = FileAbsent
    /\ cookie_file = FALSE
    /\ now = 0
    /\ proxy = UpdateProxyState(StartProxyServer(ProxyDefault, DefaultPort),
                                <<"h">>, <<>>, S_openapi, <<>>)
    /\ ret = Call("init", <<>>, <<>>, FALSE)
    /\ Quiet
    /\ listeners = {DefaultPort}
    /\ app_handle = SomeHandle("main")
    /\ browser_cookies = <<>>

NextBrowser == \E up \in BrowserWorlds : BrowserRequest(up)

SpecBrowser == InitBrowser /\ [][NextBrowser]_vars

\* the names an upstream response deletes: those of its Set-Cookie lines with
\* a Max-Age <= 0
DeletedNames(up) ==
    {GivenName(up.headers[i][2].val) :
        i \in {k \in 1..Len(up.headers) :
                  /\ up.headers[k][1] = "set-cookie"
                  /\ up.headers[k][2].text
                  /\ WellFormed(up.headers[k][2].val)
                  /\ IsDeleting(up.headers[k][2].val)}}

\* the names of the Cookie header of the request given to the upstream
SentNames(o) ==
    UNION {PairNames(HeaderPairs(o.upstream.headers[i][2].val)) :
              i \in {k \in 1..Len(o.upstream.headers) : o.upstream.headers[k][1] = "cookie"}}

\* C36: a deletion sticks. When the pipeline has processed an upstream
\* Set-Cookie with Max-Age <= 0 for a name the browser holds (every cookie the
\* browser holds was stored and forwarded to it by an earlier response), the
\* browser is told to drop the name in the same response, and the request that
\* follows does not carry the name in the Cookie header given to the upstream.
C36_DeletionSticks ==
    [][/\ ret'.op = "handle_request" =>
            \A name \in DeletedNames(ret'.args[2]) :
                name \in PairNames(browser_cookies) => name \notin PairNames(browser_cookies')
       /\ (ret.op = "handle_request" /\ ret'.op = "handle_request" /\ ret'.val.upstream.some) =>
            \A name \in DeletedNames(ret.args[2]) : name \notin SentNames(ret'.val)]_vars

----------------------------------------------------------------------------
(* The cookie file under concurrent mutations, checked under SpecSave       *)

\* no thread is inside a call on the jar
JarQuiet == \A t \in Threads : thread[t].pc \in {"idle", "done"}

----------------------------------------------------------------------------
(* The command specification: the commands start_proxy and                  *)
(* update_proxy_token, invoked by threads that run at once. A step is a     *)
(* call into config or proxy: each holds its lock from beginning to end.    *)
(* The call sites name neither a dashboard nor a port: the dashboard stays  *)
(* what it is and the port is the default one                               *)

StartConfigs ==
    {<<<<"h">>, <<"t">>, S_openapi>>,
     <<<<"g">>, <<>>, S_legacy>>}

CommandCalls ==
    {<<"start_proxy", c>> : c \in StartConfigs}
        \cup {<<"update_proxy_token", <<"u">>>>}

\* Result<u16, String> of start_proxy
Ok(port) == [ok |-> TRUE, port |-> port]
Err == [ok |-> FALSE, port |-> 0]

\* a command is invoked; acc keeps whether the proxy was running then
StartCommand(t, call) ==
    /\ At(t, "idle")
    /\ thread' = [thread EXCEPT ![t] = [Idle EXCEPT !.op = call[1], !.arg = call[2],
                                                !.pc = "c_state",
                                                !.acc = proxy.running,
                                                !.from = Len(hist)]]
    /\ UNCHANGED <<jar, file, cookie_file, now, proxy, ret, lock, hist, listeners, app_handle, browser_cookies>>

\* let state = config::get_proxy_state()
CommandState(t) ==
    /\ At(t, "c_state")
    /\ CanRead(lock.state)
    /\ thread' = [thread EXCEPT ![t].snap = proxy, ![t].pc = "c_update"]
    /\ UNCHANGED <<jar, file, cookie_file, now, proxy, ret, lock, hist, listeners, app_handle, browser_cookies>>

\* the arguments of the command's call of update_proxy_state
CommandConfig(t) ==
    IF thread[t].op = "update_proxy_token"
    THEN <<thread[t].snap.server_url, thread[t].arg, thread[t].snap.auth_mode>>
    ELSE thread[t].arg

\* config::update_proxy_state(...); update_proxy_token and a start_proxy that
\* found the proxy running return after it
CommandUpdate(t) ==
    /\ At(t, "c_update")
    /\ CanWrite(lock.state)
    /\ \E c \in {CommandConfig(t)} :
          /\ proxy' = UpdateProxyState(proxy, c[1], c[2], c[3], proxy.dashboard)
          /\ hist' = Append(hist, Event(t, thread[t].op, c))
    /\ thread' = [thread EXCEPT
                  ![t].pc = IF thread[t].op = "start_proxy" /\ ~thread[t].snap.running
                            THEN "c_cookies" ELSE "done",
                  ![t].val = IF thread[t].op = "start_proxy" /\ thread[t].snap.running
                             THEN Ok(thread[t].snap.port) ELSE <<>>]
    /\ UNCHANGED <<jar, file, cookie_file, now, ret, lock, listeners, app_handle, browser_cookies>>

\* config::set_cookie_file(cookie_file); config::load_cookies()
CommandCookies(t) ==
    /\ At(t, "c_cookies")
    /\ cookie_file' = TRUE
    /\ jar' = LoadCookies(TRUE, jar, file, now)
    /\ Goto(t, "c_bind")
    /\ UNCHANGED <<file, now, proxy, ret, lock, hist, listeners, app_handle, browser_cookies>>

\* start_proxy_server: TcpListener::bind; an Err is returned by start_proxy
CommandBind(t) ==
    /\ At(t, "c_bind")
    /\ \E bound \in BindOutcomes(DefaultPort, listeners) :
          /\ listeners' = IF bound.ok THEN listeners \cup {bound.addr} ELSE listeners
          /\ thread' = [thread EXCEPT ![t].pc = IF bound.ok THEN "c_running" ELSE "done",
                                      ![t].val = IF bound.ok THEN <<>> ELSE Err]
    /\ UNCHANGED <<jar, file, cookie_file, now, proxy, ret, lock, hist, app_handle, browser_cookies>>

\* start_proxy_server: the state write after the bind, and Ok(port)
CommandRunning(t) ==
    /\ At(t, "c_running")
    /\ CanWrite(lock.state)
    /\ proxy' = StartProxyServer(proxy, DefaultPort)
    /\ thread' = [thread EXCEPT ![t].pc = "done", ![t].val = Ok(DefaultPort)]
    /\ UNCHANGED <<jar, file, cookie_file, now, ret, lock, hist, listeners, app_handle, browser_cookies>>

InitCommands ==
    /\ jar = <<>>
    /\ file \in InitFiles
    /\ cookie_file = FALSE
    /\ now = 0
    /\ proxy = ProxyDefault
    /\ ret = Call("init", <<>>, <<>>, FALSE)
    /\ Quiet
    /\ listeners = {}
    /\ app_handle = SomeHandle("main")
    /\ browser_cookies = <<>>

NextCommands ==
    \E t \in Threads :
        \/ \E call \in CommandCalls : StartCommand(t, call)
        \/ CommandState(t)
        \/ CommandUpdate(t)
        \/ CommandCookies(t)
        \/ CommandBind(t)
        \/ CommandRunning(t)

SpecCommands == InitCommands /\ [][NextCommands]_vars

\* a start_proxy that was invoked while the proxy was running
InvokedRunning(t) == thread[t].op = "start_proxy" /\ thread[t].acc = TRUE

\* thread t returns from start_proxy in this step
Returns(t) == thread[t].op = "start_proxy" /\ thread[t].pc # "done" /\ thread'[t].pc = "done"

\* C38: start_proxy is idempotent with respect to the listener. A start_proxy
\* invoked while the proxy is running binds no listener, does not reload the
\* jar and returns Ok with the port in use; and over any two invocations, also
\* two at once, at most one listener is bound and no invocation returns an
\* error while a listener of the proxy is bound on the requested port.
C38_StartOnce ==
    [][/\ \A t \in Threads :
            (InvokedRunning(t) /\ thread'[t] # thread[t]) =>
                /\ listeners' = listeners
                /\ jar' = jar
                /\ cookie_file' = cookie_file
                /\ Returns(t) => thread'[t].val = Ok(proxy.port)
       /\ Cardinality(listeners') <= 1
       /\ \A t \in Threads :
            (Returns(t) /\ DefaultPort \in listeners) => thread'[t].val.ok]_vars

\* the updates of the configuration by start_proxy, in the order they took effect
ConfigUpdates == {i \in 1..Len(hist) : hist[i].kind = "start_proxy"}

\* C39: update_proxy_token changes only the token. After it has returned,
\* server_url and auth_mode are those of the most recent configuration update
\* of start_proxy (those of the initial state when there was none), also when
\* that update ran at once with update_proxy_token.
C39_TokenOnly ==
    \A t \in Threads :
        (thread[t].op = "update_proxy_token" /\ thread[t].pc = "done") =>
            IF ConfigUpdates = {}
            THEN /\ proxy.server_url = ProxyDefault.server_url
                 /\ proxy.auth_mode = ProxyDefault.auth_mode
            ELSE /\ proxy.server_url = hist[Last(ConfigUpdates)].arg[1]
                 /\ proxy.auth_mode = hist[Last(ConfigUpdates)].arg[3]

=============================================================================
